---------------------------- MODULE Spec2Model ----------------------------
(***************************************************************************)
(* GroMo AI Sales Coach: the recommendation and forecasting engine.        *)
(*                                                                         *)
(* The model follows src/services/card_service.py, lead_service.py,        *)
(* forecast_service.py, src/models/success_predictor.py,                   *)
(* commission_predictor.py and src/utils/metrics.py.                       *)
(*                                                                         *)
(* Numbers.  Python floats are modelled as exact rationals [n, d] in       *)
(* lowest terms, with the two IEEE specials the code can produce: NaN      *)
(* (0/0) and +inf (x/0, x > 0).  Rounding error is not modelled.           *)
(*                                                                         *)
(* Snapshot.  The data loader caches one DataFrame of sales.  Every        *)
(* handler modelled here filters, groups and aggregates it (groupby sorts  *)
(* its keys), so only the multiset of rows matters: the snapshot is a bag  *)
(* of sale rows.                                                           *)
(***************************************************************************)
EXTENDS Integers, Sequences, FiniteSets, Bags, TLC

(***************************************************************************)
(* Bounds of the model.                                                    *)
(***************************************************************************)
MaxSales == 3        \* rows in the sales snapshot
NumCards == 3        \* card ids 1..NumCards appear in the snapshot
MaxLimit == 3        \* the limit argument ranges over 0..MaxLimit
NumSeeds == 2        \* states the random generator can be found in
IncomeSteps == 24    \* incomes range over 0 .. IncomeSteps * 50000
MaxMonths == 3       \* the forecast_months argument ranges over -1 .. MaxMonths
MaxCount == 12       \* counts handed to the metrics primitives: 0 .. MaxCount
MaxTokens == 3       \* an eligibility text has at most MaxTokens words

(***************************************************************************)
(* Rational arithmetic with NaN and +inf.                                  *)
(***************************************************************************)
RECURSIVE GCD(_, _)
GCD(a, b) == IF b = 0 THEN a ELSE GCD(b, a % b)

Abs(x) == IF x < 0 THEN -x ELSE x

NaN == [n |-> 0, d |-> 0]
Inf == [n |-> 1, d |-> 0]

IsNaN(a) == a.d = 0 /\ a.n = 0
IsInf(a) == a.d = 0 /\ a.n # 0

\* n/d in lowest terms, d > 0
Rat(n, d) ==
    LET g == GCD(Abs(n), Abs(d))
        s == IF d < 0 THEN -1 ELSE 1
    IN  [n |-> s * (n \div g), d |-> s * (d \div g)]

Int2Rat(i) == [n |-> i, d |-> 1]

RAdd(a, b) ==
    IF IsNaN(a) \/ IsNaN(b) THEN NaN
    ELSE IF IsInf(a) \/ IsInf(b) THEN Inf
    ELSE Rat(a.n * b.d + b.n * a.d, a.d * b.d)

RSub(a, b) ==
    IF IsNaN(a) \/ IsNaN(b) THEN NaN
    ELSE IF IsInf(a) /\ IsInf(b) THEN NaN
    ELSE IF IsInf(a) THEN Inf
    ELSE Rat(a.n * b.d - b.n * a.d, a.d * b.d)

RMul(a, b) ==
    IF IsNaN(a) \/ IsNaN(b) THEN NaN
    ELSE IF IsInf(a) \/ IsInf(b)
         THEN (IF a.n = 0 \/ b.n = 0 THEN NaN ELSE Inf)
    ELSE Rat(a.n * b.n, a.d * b.d)

\* float division as numpy performs it on a column: 0/0 is NaN, x/0 is inf
RDiv(a, b) ==
    IF IsNaN(a) \/ IsNaN(b) THEN NaN
    ELSE IF b.n = 0 /\ b.d # 0 THEN (IF a.n = 0 THEN NaN ELSE Inf)
    ELSE IF IsInf(a) THEN (IF IsInf(b) THEN NaN ELSE Inf)
    ELSE IF IsInf(b) THEN Int2Rat(0)
    ELSE Rat(a.n * b.d, a.d * b.n)

\* comparisons; any comparison with NaN is false
RLt(a, b) ==
    /\ ~IsNaN(a) /\ ~IsNaN(b)
    /\ IF IsInf(b) THEN ~IsInf(a)
       ELSE IF IsInf(a) THEN FALSE
       ELSE a.n * b.d < b.n * a.d
RLe(a, b) == ~IsNaN(a) /\ ~IsNaN(b) /\ ~RLt(b, a)
RGt(a, b) == RLt(b, a)
RGe(a, b) == RLe(b, a)

\* Series.max() and Series.min(): NaN entries are skipped; NaN when none is left
SeriesMax(S) ==
    LET V == {x \in S : ~IsNaN(x)}
    IN  IF V = {} THEN NaN ELSE CHOOSE x \in V : \A y \in V : RLe(y, x)
SeriesMin(S) ==
    LET V == {x \in S : ~IsNaN(x)}
    IN  IF V = {} THEN NaN ELSE CHOOSE x \in V : \A y \in V : RLe(x, y)

RECURSIVE SumFun(_)
SumFun(f) ==
    IF DOMAIN f = {} THEN 0
    ELSE LET x == CHOOSE x \in DOMAIN f : TRUE
         IN  f[x] + SumFun([y \in DOMAIN f \ {x} |-> f[y]])

RECURSIVE SortedSeq(_)
\* the elements of a set of integers in ascending order (groupby sorts its keys)
SortedSeq(S) ==
    IF S = {} THEN << >>
    ELSE LET m == CHOOSE m \in S : \A y \in S : m <= y
         IN  <<m>> \o SortedSeq(S \ {m})

Range(s) == {s[i] : i \in DOMAIN s}

Min2(a, b) == IF a < b THEN a ELSE b
Max2(a, b) == IF a > b THEN a ELSE b

(***************************************************************************)
(* Metrics primitives (src/utils/metrics.py).                              *)
(***************************************************************************)
\* a success rate that divides without testing total_sales (0/0 on numpy
\* numbers is nan)
calculate_success_rate_without_guard(successful_sales, total_sales) ==
    IF total_sales = 0 THEN NaN ELSE Rat(successful_sales, total_sales)

calculate_success_rate(successful_sales, total_sales) ==
    IF total_sales = 0 THEN Int2Rat(0) ELSE Rat(successful_sales, total_sales)

calculate_avg_commission(total_commission, successful_sales) ==
    IF successful_sales = 0 THEN Int2Rat(0) ELSE Rat(total_commission, successful_sales)


(***************************************************************************)
(* State.                                                                  *)
(***************************************************************************)
VARIABLES
    phase,      \* "loading": the collaborator's store is being filled;
                \* "serving": DataLoader has cached the snapshot;
                \* "unavailable": the load returned None
    sales,      \* the sales snapshot, a bag of sale rows
    cardsOut,   \* what the last CardService call computed and returned
    success_predictor,      \* LeadService.success_predictor
    commission_predictor,   \* LeadService.commission_predictor
    model_dir,  \* Config.MODEL_DIR: success_model.pkl and commission_model.pkl
    leadsOut,   \* what the last LeadService call computed and returned
    predOut,    \* what the last call made on a predictor directly did
    forecastOut,    \* what the last ForecastService call computed and returned
    sales_columns,  \* the column labels of the cached sales frame
    requests    \* the requests being served concurrently, each with its
                \* position in the handler

vars == <<phase, sales, cardsOut, success_predictor, commission_predictor,
          model_dir, leadsOut, predOut, forecastOut, sales_columns, requests>>

\* the state of the LeadService singleton and its last answer
lead_state == <<success_predictor, commission_predictor, model_dir, leadsOut>>
\* what a CardService call, a LeadService call, a predictor call and a
\* ForecastService call leave alone
beside_cards == <<lead_state, predOut, forecastOut, sales_columns, requests>>
beside_leads == <<cardsOut, predOut, forecastOut, sales_columns, requests>>
beside_predictors == <<cardsOut, leadsOut, forecastOut, sales_columns, requests>>
beside_forecast == <<cardsOut, lead_state, predOut, requests>>

Cards == 1 .. NumCards
\* an agent with no row in the snapshot is a new agent
Agents == {1, 2}
Limits == 0 .. MaxLimit

\* a sale row; a failed application carries no commission
SaleRow(a, c, ok, comm, m, inc, emp) ==
    [agent_id |-> a, card_id |-> c, success_flag |-> ok, commission |-> comm,
     month |-> m, customer_income |-> inc, customer_employment |-> emp]

\* the columns of the preprocessed sales frame (data_loader.py flattens
\* customer_details into the customer_* columns)
SnapshotColumns ==
    {"sale_id", "agent_id", "card_id", "success_flag", "commission", "date",
     "customer_age", "customer_income", "customer_credit_score",
     "customer_employment"}

Idle == [op |-> "idle"]

\* a model file: absent, or a joblib pickle that is the dict save_model
\* writes ("dict"), some other object ("object"), or unreadable ("corrupt")
NoFile == [exists |-> FALSE]
NoFiles == [success_model |-> NoFile, commission_model |-> NoFile]
Pickle(kind, blob) == [exists |-> TRUE, kind |-> kind, blob |-> blob]

\* self.features: None, or the list train stored
NoFeatures == [is_none |-> TRUE]
Features(list) == [is_none |-> FALSE, list |-> list]

\* SuccessPredictor.__init__ and CommissionPredictor.__init__
NewSuccessPredictor == [model |-> "None", features |-> NoFeatures]
NewCommissionPredictor ==
    [model |-> "None", features |-> NoFeatures, avg_commission |-> Int2Rat(1000)]

(***************************************************************************)
(* DataFrame helpers over the snapshot.                                    *)
(***************************************************************************)
\* sales_data[sales_data['agent_id'] == agent_id]
AgentSales(B, agent_id) ==
    LET K == {k \in DOMAIN B : k.agent_id = agent_id}
    IN  [k \in K |-> B[k]]

\* len(df)
Rows(B) == SumFun([k \in DOMAIN B |-> B[k]])

CountWhere(B, K) == SumFun([k \in K |-> B[k]])

\* groupby('card_id').agg(sale_id count, success_flag sum, commission sum)
\* followed by the success_rate and avg_commission columns; rows come out in
\* ascending card_id order
CardRow(B, c) ==
    LET K     == {k \in DOMAIN B : k.card_id = c}
        total == CountWhere(B, K)
        succ  == CountWhere(B, {k \in K : k.success_flag})
        comm  == SumFun([k \in K |-> B[k] * k.commission])
    IN  [card_id          |-> c,
         total_sales      |-> total,
         successful_sales |-> succ,
         commission       |-> comm,
         success_rate     |-> calculate_success_rate(succ, total),
         avg_commission   |-> calculate_avg_commission(comm, succ)]

CardPerformance(B) ==
    LET ids == SortedSeq({k.card_id : k \in DOMAIN B})
    IN  [i \in DOMAIN ids |-> CardRow(B, ids[i])]

Column(frame, col) == {frame[i][col] : i \in DOMAIN frame}

Perms(n) == {p \in [1 .. n -> 1 .. n] : \A i, j \in 1 .. n : i # j => p[i] # p[j]}

\* DataFrame.sort_values(key, ascending=False) with the default kind
\* ('quicksort', which pandas documents as not stable): the orders it can
\* return.  Rows with a NaN key go last, in their original order
\* (nargsort, na_position='last'); the others are in descending key order
\* and rows with equal keys may come out in either order.
SortDescending(keys) ==
    {p \in Perms(Len(keys)) :
        \A i, j \in DOMAIN keys : i < j =>
            IF IsNaN(keys[p[i]])
            THEN IsNaN(keys[p[j]]) /\ p[i] < p[j]
            ELSE IsNaN(keys[p[j]]) \/ RGe(keys[p[i]], keys[p[j]])}

\* DataFrame.head(n) and list[:n]: the first n entries, and for a negative n
\* all but the last -n
Head_n(order, n) ==
    IF n >= 0 THEN SubSeq(order, 1, Min2(n, Len(order)))
    ELSE SubSeq(order, 1, Len(order) + n)


(***************************************************************************)
(* CardService (src/services/card_service.py).                             *)
(***************************************************************************)
Pct(p) == Rat(p, 100)

\* a bonus for every card the agent has sold, whatever came of it
bonus_for_any_sold_card(card_id, agent_perf) ==
    IF \E i \in DOMAIN agent_perf : agent_perf[i].card_id = card_id
    THEN Pct(20)
    ELSE Int2Rat(0)

\* calc_agent_bonus(row) of _calculate_card_fit_score: agent_perf is the
\* agent's own per-card frame
calc_agent_bonus(card_id, agent_perf) ==
    IF \E i \in DOMAIN agent_perf : agent_perf[i].card_id = card_id
    THEN LET r == agent_perf[CHOOSE i \in DOMAIN agent_perf :
                                 agent_perf[i].card_id = card_id]
         IN  IF RGt(r.success_rate, Pct(50)) /\ RGt(r.avg_commission, Int2Rat(0))
             THEN Pct(20)
             ELSE IF RLt(r.success_rate, Pct(30)) /\ Len(agent_perf) > 2
             THEN Rat(-10, 100)
             ELSE Int2Rat(0)
    ELSE Int2Rat(0)

\* the base_score column
base_score(row, max_comm) ==
    RAdd(RMul(row.success_rate, Pct(40)),
         RMul(RDiv(row.avg_commission, max_comm), Pct(60)))

\* the closing normalisation of _calculate_card_fit_score: rescaled only
\* when max_score > min_score, left as it is otherwise
normalize_fit(raw, min_score, max_score) ==
    IF RGt(max_score, min_score)
    THEN RDiv(RSub(raw, min_score), RSub(max_score, min_score))
    ELSE raw

\* _calculate_card_fit_score: the frame with base_score, agent_bonus, the
\* sum of the two (raw_score) and the returned fit_score column
calculate_card_fit_score(card_performance, agent_card_performance) ==
    LET max_comm == SeriesMax(Column(card_performance, "avg_commission"))
        bonus(row) == IF Len(agent_card_performance) > 0
                      THEN calc_agent_bonus(row.card_id, agent_card_performance)
                      ELSE Int2Rat(0)
        raw(row) == RAdd(base_score(row, max_comm), bonus(row))
        raws == {raw(card_performance[i]) : i \in DOMAIN card_performance}
        min_score == SeriesMin(raws)
        max_score == SeriesMax(raws)
    IN  [i \in DOMAIN card_performance |->
            LET row == card_performance[i]
            IN  [card_id        |-> row.card_id,
                 success_rate   |-> row.success_rate,
                 avg_commission |-> row.avg_commission,
                 total_sales    |-> row.total_sales,
                 base_score     |-> base_score(row, max_comm),
                 agent_bonus    |-> bonus(row),
                 raw_score      |-> raw(row),
                 fit_score      |-> normalize_fit(raw(row), min_score, max_score)]]

\* the beginner_score column of _recommend_for_new_agent
beginner_score(row, max_comm) ==
    RAdd(RMul(row.success_rate, Pct(70)),
         RMul(RDiv(row.avg_commission, max_comm), Pct(30)))

new_agent_scores(card_performance) ==
    LET max_comm == SeriesMax(Column(card_performance, "avg_commission"))
    IN  [i \in DOMAIN card_performance |->
            LET row == card_performance[i]
            IN  [card_id        |-> row.card_id,
                 success_rate   |-> row.success_rate,
                 avg_commission |-> row.avg_commission,
                 total_sales    |-> row.total_sales,
                 fit_score      |-> beginner_score(row, max_comm)]]

\* sort_values('fit_score' / 'beginner_score', ascending=False).head(limit),
\* then one result entry per row
TopCards(scored, order, limit) ==
    LET top == Head_n(order, limit)
    IN  [i \in DOMAIN top |-> scored[top[i]]]

\* what a CardService call leaves behind: its arguments, the path taken, the
\* scored frame in candidate order, the order the sort returned and the list
CardsAnswer(agent_id, limit, path, scored, order) ==
    [op |-> "recommend_cards", agent_id |-> agent_id, limit |-> limit,
     path |-> path, raised |-> "None", scored |-> scored, order |-> order,
     result |-> TopCards(scored, order, limit)]

\* _recommend_for_new_agent(limit)
recommend_for_new_agent(agent_id, limit) ==
    \E card_performance \in {CardPerformance(sales)} :
    \E scored \in {new_agent_scores(card_performance)} :
    \E order \in SortDescending([i \in DOMAIN scored |-> scored[i].fit_score]) :
        cardsOut' = CardsAnswer(agent_id, limit, "new_agent", scored, order)

\* recommend_cards(agent_id, limit).  A snapshot without a record is a
\* frame without columns (pd.DataFrame([])), and selecting its agent_id
\* column raises.
recommend_cards(agent_id, limit) ==
    /\ phase # "loading"
    /\ cardsOut = Idle
    /\ IF phase = "unavailable"
       THEN cardsOut' = [op |-> "recommend_cards", agent_id |-> agent_id,
                         limit |-> limit, path |-> "none", raised |-> "None"]
       ELSE IF Rows(sales) = 0
       THEN cardsOut' = [op |-> "recommend_cards", agent_id |-> agent_id,
                         limit |-> limit, path |-> "none", raised |-> "KeyError"]
       ELSE IF Rows(AgentSales(sales, agent_id)) = 0
       THEN recommend_for_new_agent(agent_id, limit)
       ELSE \E card_performance \in {CardPerformance(sales)},
               agent_card_performance \in
                   {CardPerformance(AgentSales(sales, agent_id))} :
            \E scored \in {calculate_card_fit_score(card_performance,
                                                     agent_card_performance)} :
            \E order \in SortDescending(
                             [i \in DOMAIN scored |-> scored[i].fit_score]) :
                cardsOut' = CardsAnswer(agent_id, limit, "history", scored, order)
    /\ UNCHANGED <<phase, sales, beside_cards>>

\* the ids a comparison is asked for; 0 is the id of no card
RequestedIds == SUBSET (0 .. NumCards)

\* the row of a compared card after the left merge with the per-card
\* performance and fillna(0)
ComparedCard(B, c) ==
    IF c \in {k.card_id : k \in DOMAIN B}
    THEN CardRow(B, c)
    ELSE [card_id |-> c, total_sales |-> 0, successful_sales |-> 0,
          commission |-> 0, success_rate |-> Int2Rat(0),
          avg_commission |-> Int2Rat(0)]

\* what compare_cards returns: None, the exception, or the comparison with
\* its card_ids list
Comparison(card_ids, raised, is_none, compared) ==
    [op |-> "compare_cards", card_ids |-> card_ids, raised |-> raised,
     is_none |-> is_none, compared |-> compared]

\* compare_cards(card_ids).  The card catalogue may be loaded while the
\* sales snapshot is not; the rows of the comparison are the catalogue rows
\* whose card_id is among card_ids, in catalogue order.  Grouping a snapshot
\* without a record (a frame without columns) by card_id raises.
compare_cards(card_ids) ==
    /\ phase # "loading"
    /\ cardsOut = Idle
    /\ \E cards_loaded \in {b \in BOOLEAN : phase = "serving" => b} :
       \E comparison_cards \in {SortedSeq(card_ids \cap Cards)} :
        cardsOut' =
            IF ~cards_loaded \/ Len(comparison_cards) = 0
            THEN Comparison(card_ids, "None", TRUE, << >>)
            ELSE IF phase = "serving" /\ Rows(sales) = 0
            THEN Comparison(card_ids, "KeyError", TRUE, << >>)
            ELSE Comparison(card_ids, "None", FALSE,
                     [i \in DOMAIN comparison_cards |->
                         IF phase = "serving"
                         THEN ComparedCard(sales, comparison_cards[i])
                         ELSE [card_id |-> comparison_cards[i]]])
    /\ UNCHANGED <<phase, sales, beside_cards>>

\* the response has been handed to the caller
ReturnCards ==
    /\ cardsOut # Idle
    /\ cardsOut' = Idle
    /\ UNCHANGED <<phase, sales, beside_cards>>

(***************************************************************************)
(* The persistence collaborator: rows are stored, then DataLoader loads    *)
(* and caches them (or fails and returns None).                            *)
(***************************************************************************)
\* rows whose card, agent and outcome vary; the other columns are fixed
CardSaleRows ==
    {SaleRow(a, c, o[1], o[2], 1, 500000, "Salaried") :
        a \in Agents, c \in Cards,
        o \in {<<FALSE, 0>>, <<TRUE, 1000>>, <<TRUE, 2000>>}}

StoreSale(K) ==
    /\ phase = "loading"
    /\ BagCardinality(sales) % 50 < MaxSales
    /\ \E k \in K : sales' = sales (+) SetToBag({k})
    /\ UNCHANGED <<phase, cardsOut, beside_cards>>

LoadSnapshot ==
    /\ phase = "loading"
    /\ \E ok \in BOOLEAN : phase' = IF ok THEN "serving" ELSE "unavailable"
    /\ UNCHANGED <<sales, cardsOut, beside_cards>>

InitCards ==
    /\ phase = "loading"
    /\ sales = EmptyBag
    /\ cardsOut = Idle
    /\ success_predictor = NewSuccessPredictor
    /\ commission_predictor = NewCommissionPredictor
    /\ model_dir = NoFiles
    /\ leadsOut = Idle
    /\ predOut = Idle
    /\ forecastOut = Idle
    /\ sales_columns = SnapshotColumns
    /\ requests = Idle

NextCards ==
    \/ StoreSale(CardSaleRows)
    \/ LoadSnapshot
    \/ \E agent_id \in Agents, limit \in Limits : recommend_cards(agent_id, limit)
    \/ \E card_ids \in RequestedIds : compare_cards(card_ids)
    \/ ReturnCards

SpecCards == InitCards /\ [][NextCards]_vars


(***************************************************************************)
(* Predictors (src/models/success_predictor.py, commission_predictor.py).  *)
(*                                                                         *)
(* A predictor object is a record.  model is "None", or what self.model    *)
(* holds: "fitted" (a Pipeline whose fit returned), "one_class" (a fitted  *)
(* classifier whose labels were all equal, so that predict_proba has one   *)
(* column), "unfitted" (a Pipeline that was constructed but whose fit      *)
(* raised) or "junk" (a loaded object that is no Pipeline).                *)
(***************************************************************************)
\* SuccessPredictor.is_trained / CommissionPredictor.is_trained
is_trained(p) == p.model # "None"

\* customer_data.get(key, default)
Get(d, key, default) == IF key \in DOMAIN d THEN d[key] ELSE default

RMin(a, b) == IF RLt(a, b) THEN a ELSE b
RMax(a, b) == IF RGt(a, b) THEN a ELSE b

\* the feature list train stores: the customer and categorical columns that
\* the training frame has, in the order the code appends them
FeatureOrder ==
    <<"customer_age", "customer_income", "customer_credit_score",
      "customer_employment", "card_id">>
FeatureList(columns) == SelectSeq(FeatureOrder, LAMBDA f : f \in columns)

\* A training frame as train sees it: its row count, its columns, whether
\* sklearn's fit accepts it (fit raises on, e.g., a label column holding
\* NaN), the number of distinct success_flag values and the mean of its
\* commission column.
NoFrame == [is_none |-> TRUE]
TrainingFrame(rows, columns, fit_ok, classes, mean_commission) ==
    [is_none |-> FALSE, rows |-> rows, columns |-> columns, fit_ok |-> fit_ok,
     classes |-> classes, mean_commission |-> mean_commission]

\* a train that accepts 49 rows
success_train_on_49_rows(p, frame) ==
    IF frame.is_none \/ frame.rows < 49
    THEN [p |-> p, ret |-> FALSE]
    ELSE IF ~({"success_flag", "card_id"} \subseteq frame.columns)
    THEN [p |-> p, ret |-> FALSE]
    ELSE IF frame.fit_ok
    THEN [p |-> [model |-> IF frame.classes >= 2 THEN "fitted" ELSE "one_class",
                 features |-> Features(FeatureList(frame.columns))],
          ret |-> TRUE]
    ELSE [p |-> [model |-> "unfitted", features |-> Features(FeatureList(frame.columns))],
          ret |-> FALSE]

\* SuccessPredictor.train: the predictor afterwards and the value returned
success_train(p, frame) ==
    IF frame.is_none \/ frame.rows < 50
    THEN [p |-> p, ret |-> FALSE]
    ELSE IF ~({"success_flag", "card_id"} \subseteq frame.columns)
    THEN [p |-> p, ret |-> FALSE]
    ELSE IF FeatureList(frame.columns) = << >>
    THEN [p |-> p, ret |-> FALSE]
    ELSE \* self.features, then self.model = Pipeline(...), then fit
         IF frame.fit_ok
         THEN [p |-> [model |-> IF frame.classes >= 2 THEN "fitted" ELSE "one_class",
                      features |-> Features(FeatureList(frame.columns))],
               ret |-> TRUE]
         ELSE [p |-> [model |-> "unfitted", features |-> Features(FeatureList(frame.columns))],
               ret |-> FALSE]

\* CommissionPredictor.train
commission_train(p, frame) ==
    IF frame.is_none \/ frame.rows < 30
    THEN [p |-> p, ret |-> FALSE]
    ELSE IF ~({"commission", "card_id"} \subseteq frame.columns)
    THEN [p |-> p, ret |-> FALSE]
    ELSE LET p1 == [p EXCEPT !.avg_commission = frame.mean_commission]
         IN  IF FeatureList(frame.columns) = << >>
             THEN [p |-> p1, ret |-> FALSE]
             ELSE IF frame.fit_ok
             THEN [p |-> [p1 EXCEPT !.model = "fitted",
                                    !.features = Features(FeatureList(frame.columns))],
                   ret |-> TRUE]
             ELSE [p |-> [p1 EXCEPT !.model = "unfitted",
                                    !.features = Features(FeatureList(frame.columns))],
                   ret |-> FALSE]

\* the weighted sum of the three factors returned as it is
basic_prediction_without_cap(customer_data) ==
    LET credit_score  == Get(customer_data, "credit_score", 650)
        credit_factor == RMin(Int2Rat(1), RMax(Int2Rat(0), Rat(credit_score - 600, 300)))
        income        == Get(customer_data, "income", 300000)
        income_factor == RMin(Int2Rat(1), RMax(Int2Rat(0), Rat(income - 200000, 800000)))
        age           == Get(customer_data, "age", 35)
        age_factor    == IF age < 21 THEN Pct(50)
                         ELSE IF age < 25 THEN Pct(80)
                         ELSE IF age <= 55 THEN Pct(100)
                         ELSE IF age <= 65 THEN Pct(90)
                         ELSE Pct(70)
    IN  RAdd(Pct(30),
             RAdd(RMul(credit_factor, Pct(30)),
                  RAdd(RMul(income_factor, Pct(30)),
                       RMul(age_factor, Pct(10)))))

\* SuccessPredictor._basic_prediction
success_basic_prediction(customer_data) ==
    LET credit_score  == Get(customer_data, "credit_score", 650)
        credit_factor == RMin(Int2Rat(1), RMax(Int2Rat(0), Rat(credit_score - 600, 300)))
        income        == Get(customer_data, "income", 300000)
        income_factor == RMin(Int2Rat(1), RMax(Int2Rat(0), Rat(income - 200000, 800000)))
        age           == Get(customer_data, "age", 35)
        age_factor    == IF age < 21 THEN Pct(50)
                         ELSE IF age < 25 THEN Pct(80)
                         ELSE IF age <= 55 THEN Pct(100)
                         ELSE IF age <= 65 THEN Pct(90)
                         ELSE Pct(70)
        probability   == RAdd(Pct(30),
                              RAdd(RMul(credit_factor, Pct(30)),
                                   RAdd(RMul(income_factor, Pct(30)),
                                        RMul(age_factor, Pct(10)))))
    IN  RMin(Pct(90), RMax(Pct(10), probability))

\* What a fitted classifier answers.  The fitted model is an opaque function
\* of the feature vector; this one depends on the credit score feature and
\* takes a value on each side of the thresholds the services use.
FittedProbability(customer_data, card_id) ==
    LET credit_score == Get(customer_data, "credit_score", 700)
    IN  IF credit_score >= 750 THEN Pct(80)
        ELSE IF credit_score >= 650 THEN Pct(45)
        ELSE Int2Rat(0)

\* What a fitted regressor answers (before max(0, .))
FittedCommission(customer_data, card_id) ==
    LET income == Get(customer_data, "income", 500000)
    IN  IF income >= 600000 THEN Int2Rat(1500) ELSE Int2Rat(800)

\* does predict_proba(X)[0, 1] raise?  It does unless the feature list is
\* a list and the model is a Pipeline fitted on both classes.
ProbaRaises(p) == p.features.is_none \/ p.model # "fitted"

\* does model.predict(X)[0] raise?
PredictRaises(p) == p.features.is_none \/ p.model # "fitted"

\* a predict_probability without the try/except around inference
predict_probability_without_handler(p, customer_data, card_id) ==
    IF ~is_trained(p)
    THEN [value |-> success_basic_prediction(customer_data), path |-> "heuristic"]
    ELSE IF ProbaRaises(p)
    THEN [value |-> NaN, path |-> "raised"]
    ELSE [value |-> FittedProbability(customer_data, card_id), path |-> "model"]

\* SuccessPredictor.predict_probability: the value and the path taken
predict_probability(p, customer_data, card_id) ==
    IF ~is_trained(p)
    THEN [value |-> success_basic_prediction(customer_data), path |-> "heuristic"]
    ELSE IF ProbaRaises(p)
    THEN [value |-> success_basic_prediction(customer_data), path |-> "except"]
    ELSE [value |-> FittedProbability(customer_data, card_id), path |-> "model"]

\* CommissionPredictor.predict_commission
predict_commission(p, customer_data, card_id) ==
    IF ~is_trained(p)
    THEN [value |-> p.avg_commission, path |-> "fallback"]
    ELSE IF PredictRaises(p)
    THEN [value |-> p.avg_commission, path |-> "except"]
    ELSE [value |-> RMax(Int2Rat(0), FittedCommission(customer_data, card_id)),
          path |-> "model"]

(***************************************************************************)
(* Claims about CardService.                                               *)
(***************************************************************************)
CardsAnswered == cardsOut.op = "recommend_cards" /\ cardsOut.path # "none"

\* some candidate has a successful sale, so avg_commission.max() > 0 and every
\* base score is a number
CommissionEarned(scored) ==
    \E i \in DOMAIN scored : RGt(scored[i].avg_commission, Int2Rat(0))

\* C2: after recommend_cards for an agent with history, every fit_score is in
\* [0,1]; some candidate scores 1 and some 0, unless all raw scores
\* (base_score + agent_bonus) are equal, and then every fit_score is 0.
\* Stated for candidate sets in which some card earned commission, so that
\* the raw scores are numbers.
C2_FitScoreNormalized ==
    (CardsAnswered /\ cardsOut.path = "history" /\ CommissionEarned(cardsOut.scored)) =>
        LET scored == cardsOut.scored
            AllEqual == \A i, j \in DOMAIN scored :
                            scored[i].raw_score = scored[j].raw_score
        IN  /\ \A i \in DOMAIN scored :
                   /\ RGe(scored[i].fit_score, Int2Rat(0))
                   /\ RLe(scored[i].fit_score, Int2Rat(1))
            /\ IF AllEqual
               THEN \A i \in DOMAIN scored : scored[i].fit_score = Int2Rat(0)
               ELSE /\ \E i \in DOMAIN scored : scored[i].fit_score = Int2Rat(1)
                    /\ \E i \in DOMAIN scored : scored[i].fit_score = Int2Rat(0)

\* a >= b as sort keys, a NaN key counting as the lowest
KeyGe(a, b) == IsNaN(b) \/ RGe(a, b)

\* C5: the list recommend_cards returns (either path) is in descending score
\* order, rows of equal score keep their candidate order, no card occurs
\* twice, and its length is min(limit, number of candidates).
C5_StableSortedTopCards ==
    CardsAnswered =>
        LET result == cardsOut.result
            Pos(c) == CHOOSE i \in DOMAIN cardsOut.scored :
                          cardsOut.scored[i].card_id = c
        IN  /\ Len(result) = Min2(cardsOut.limit, Len(cardsOut.scored))
            /\ \A i, j \in DOMAIN result : i < j =>
                   /\ result[i].card_id # result[j].card_id
                   /\ KeyGe(result[i].fit_score, result[j].fit_score)
                   /\ result[i].fit_score = result[j].fit_score =>
                          Pos(result[i].card_id) < Pos(result[j].card_id)

(***************************************************************************)
(* LeadService (src/services/lead_service.py).                             *)
(*                                                                         *)
(* The card catalogue (cards_data).  A card's name is kept as the set of   *)
(* the keywords the code looks for in it; its eligibility text is a        *)
(* sequence of whitespace-separated tokens and a token is a sequence of    *)
(* characters (a run of letters is written as one piece).  "Rs" stands for *)
(* the rupee sign the sample data generator puts before the amount.        *)
(***************************************************************************)
CardName(c) ==
    CASE c = 1 -> {}
      [] c = 2 -> {"business", "gold"}
      [] c = 3 -> {"student"}
      [] OTHER -> {"premium"}

CardEligibility(c) ==
    CASE c = 1 -> << <<"Income">>, <<">">>, <<"5", "0", "0", "0", "0", "0">> >>
      [] c = 2 -> << <<"Income">>, <<">">>, <<"2", ",", "0", "0", ",", "0", "0", "0">> >>
      [] c = 3 -> << <<"Income">>, <<">">>, <<"Rs", "3", "0", "0", "0", "0", "0">> >>
      [] OTHER -> << <<"Salaried">>, <<"applicants">> >>

\* cards_data[cards_data['card_id'] == card_id].iloc[0].to_dict()
CardDetails(c) ==
    [card_id |-> c, name |-> CardName(c), eligibility |-> CardEligibility(c)]

\* the card ids that have a row in cards_data
KnownCards == Cards

Digit(ch) ==
    CASE ch = "0" -> 0 [] ch = "1" -> 1 [] ch = "2" -> 2 [] ch = "3" -> 3
      [] ch = "4" -> 4 [] ch = "5" -> 5 [] ch = "6" -> 6 [] ch = "7" -> 7
      [] ch = "8" -> 8 [] ch = "9" -> 9 [] OTHER -> -1

RECURSIVE DigitsValue(_)
DigitsValue(s) ==
    IF s = << >> THEN 0
    ELSE 10 * DigitsValue(SubSeq(s, 1, Len(s) - 1)) + Digit(s[Len(s)])

\* float(token.replace(',', '')) on a token of digits and commas; any other
\* character makes float raise ValueError
ParseFloat(token) ==
    LET s == SelectSeq(token, LAMBDA ch : ch # ",")
    IN  IF s = << >> \/ \E i \in DOMAIN s : Digit(s[i]) < 0
        THEN [ok |-> FALSE]
        ELSE [ok |-> TRUE, value |-> DigitsValue(s)]

\* the eligibility parse that opens _generate_customer_profile,
\* _basic_prediction and _identify_key_factors: the minimum income and
\* whether it is a float (parsed) or the int default
ParseMinIncome(card_details) ==
    LET default == [value |-> 300000, is_float |-> FALSE]
    IN  IF "eligibility" \notin DOMAIN card_details THEN default
        ELSE LET e == card_details.eligibility
             IN  IF e = << >> THEN default
                 ELSE IF ~(\E i \in DOMAIN e : e[i] = <<">">>) THEN default
                 ELSE LET i == CHOOSE i \in DOMAIN e :
                                   /\ e[i] = <<">">>
                                   /\ \A j \in 1 .. i - 1 : e[j] # <<">">>
                      IN  \* split('>')[1].strip().split()[0] raises IndexError
                          \* when nothing follows the first '>'
                          IF i = Len(e) \/ e[i + 1] = <<">">> THEN default
                          ELSE LET f == ParseFloat(e[i + 1])
                               IN  IF f.ok
                                   THEN [value |-> f.value, is_float |-> TRUE]
                                   ELSE default

(***************************************************************************)
(* The random module.  Its generator is seeded from OS entropy at import   *)
(* and shared by every caller, so a handler finds it in an arbitrary       *)
(* state.  The model uses a small full-period generator: a call draws the  *)
(* state x in 0..15 (standing for random() = x/16) and advances it.        *)
(***************************************************************************)
RandomNext(x) == (5 * x + 3) % 16

\* random.randint(a, b).  On Python 3.12 and later a float argument raises
\* TypeError; before, a float with an integer value is converted.  An empty
\* range raises ValueError.
randint(a, b, a_is_float, x, float_rejected) ==
    IF a_is_float /\ float_rejected THEN [raised |-> "TypeError"]
    ELSE IF a > b THEN [raised |-> "ValueError"]
    ELSE [raised |-> "None", value |-> a + (x * (b - a + 1)) \div 16]

\* random.choice(seq)
choice(seq, x) == seq[(x * Len(seq)) \div 16 + 1]

\* int(min_income * random.uniform(lo16 / 160, hi16 / 160))
scaled_income(min_income, lo16, hi16, x) ==
    (min_income * (lo16 + ((hi16 - lo16) * x) \div 16)) \div 160

\* `word in card_name` for the lower-cased card name
NameHas(card_details, word) ==
    "name" \in DOMAIN card_details /\ word \in card_details.name

\* _generate_customer_profile(card_details, best_segments,
\* best_employment_types) entered with the generator in state x.  raised is
\* "None" or the exception that leaves the method; rng is the generator
\* state afterwards.
generate_customer_profile(card_details, best_segments, best_employment_types, x, float_rejected) ==
    LET min_income == ParseMinIncome(card_details)
        use_segment == Len(best_segments) > 0
        segment == choice(best_segments, x)
        x1 == IF use_segment THEN RandomNext(x) ELSE x
        income ==
            IF use_segment
            THEN CASE segment = "Low" ->
                          randint(min_income.value, 300000, min_income.is_float,
                                  x1, float_rejected)
                   [] segment = "Medium" ->
                          randint(300001, 600000, FALSE, x1, float_rejected)
                   [] segment = "High" ->
                          randint(600001, 1000000, FALSE, x1, float_rejected)
                   [] segment = "Very High" ->
                          randint(1000001, 3000000, FALSE, x1, float_rejected)
                   [] OTHER ->
                          [raised |-> "None",
                           value |-> scaled_income(min_income.value, 176, 320, x1)]
            ELSE [raised |-> "None",
                  value |-> scaled_income(min_income.value, 176, 400, x1)]
        x2 == RandomNext(x1)
        \* card_name is assigned only on the branch that derives the
        \* employment type from the card name
        card_name_bound == Len(best_employment_types) = 0
        draws_employment ==
            \/ ~card_name_bound
            \/ ~NameHas(card_details, "corporate")
            \/ NameHas(card_details, "business")
        employment_type ==
            IF ~card_name_bound THEN choice(best_employment_types, x2)
            ELSE IF NameHas(card_details, "business")
            THEN choice(<<"Business", "Self-Employed">>, x2)
            ELSE IF NameHas(card_details, "corporate") THEN "Salaried"
            ELSE IF NameHas(card_details, "student")
            THEN choice(<<"Student", "Salaried">>, x2)
            ELSE choice(<<"Salaried", "Self-Employed", "Business">>, x2)
        x3 == IF draws_employment THEN RandomNext(x2) ELSE x2
        \* the age chain reads card_name only when the first two tests fail
        age_reads_name == employment_type \notin {"Student", "Business", "Self-Employed"}
        age ==
            IF employment_type = "Student" THEN 21 + (x3 * 8) \div 16
            ELSE IF employment_type \in {"Business", "Self-Employed"}
            THEN 30 + (x3 * 26) \div 16
            ELSE IF NameHas(card_details, "premium") \/ NameHas(card_details, "elite")
            THEN 35 + (x3 * 31) \div 16
            ELSE 25 + (x3 * 26) \div 16
        x4 == RandomNext(x3)
        credit_score ==
            IF \/ NameHas(card_details, "premium")
               \/ NameHas(card_details, "elite")
               \/ NameHas(card_details, "platinum")
            THEN 700 + (x4 * 201) \div 16
            ELSE 650 + (x4 * 201) \div 16
        x5 == RandomNext(x4)
        x6 == RandomNext(x5)
        x7 == RandomNext(x6)
    IN  IF income.raised # "None"
        THEN [raised |-> income.raised, rng |-> x1]
        ELSE IF ~card_name_bound
        THEN \* line 460 or, at the latest, line 466 reads the unbound local
             [raised |-> "UnboundLocalError",
              rng |-> IF age_reads_name THEN x3 ELSE x4]
        ELSE [raised |-> "None",
              customer |-> [name            |-> 1000 + (x5 * 9000) \div 16,
                            age             |-> age,
                            income          |-> income.value,
                            employment_type |-> employment_type,
                            credit_score    |-> credit_score,
                            contact_number  |-> 100000000 + x6 * (900000000 \div 16),
                            email           |-> 1000 + (x7 * 9000) \div 16],
              rng |-> RandomNext(x7)]

\* _identify_key_factors: the 'factor' entries, in the order appended
identify_key_factors(customer_data, card_details, success_prob) ==
    LET min_income == ParseMinIncome(card_details).value
        income == Get(customer_data, "income", 0)
        income_ratio == IF min_income > 0 THEN Rat(income, min_income)
                        ELSE Int2Rat(1)
        credit_score == Get(customer_data, "credit_score", 0)
        employment_type == Get(customer_data, "employment_type", "")
        age == Get(customer_data, "age", 0)
        income_factor ==
            IF RLt(income_ratio, Int2Rat(1)) THEN <<"Income below requirement">>
            ELSE IF RGt(income_ratio, Rat(3, 2))
            THEN <<"Income well above requirement">>
            ELSE << >>
        credit_factor ==
            IF credit_score < 650 THEN <<"Low credit score">>
            ELSE IF credit_score >= 750 THEN <<"Excellent credit score">>
            ELSE << >>
        employment_factor ==
            IF NameHas(card_details, "business")
            THEN IF employment_type \in {"Business", "Self-Employed"}
                 THEN <<"Ideal employment type">>
                 ELSE <<"Employment type mismatch">>
            ELSE << >>
        age_factor ==
            IF NameHas(card_details, "student") /\ age > 30
            THEN <<"Age mismatch for student card">>
            ELSE IF (NameHas(card_details, "premium") \/ NameHas(card_details, "elite"))
                    /\ age < 30
            THEN <<"Young age for premium card">>
            ELSE << >>
    IN  income_factor \o credit_factor \o employment_factor \o age_factor

NoPrediction == [is_none |-> TRUE]
NoCommission == [is_none |-> TRUE, value |-> Int2Rat(0)]
SomeCommission(v) == [is_none |-> FALSE, value |-> v]

\* the dictionary _basic_prediction returns
basic_answer(success_prob, expected_commission, customer_data, card_details) ==
    [is_none |-> FALSE,
     success_probability |-> success_prob,
     expected_commission |-> SomeCommission(Int2Rat(expected_commission)),
     key_factors |-> identify_key_factors(customer_data, card_details, success_prob),
     path |-> "lead_heuristic"]

\* LeadService._basic_prediction
lead_basic_prediction(customer_data, card_details) ==
    LET min_income == ParseMinIncome(card_details).value
        income == Get(customer_data, "income", 0)
        income_ratio == IF min_income > 0 THEN Rat(income, min_income)
                        ELSE Int2Rat(1)
        credit_score == Get(customer_data, "credit_score", 0)
        credit_factor == RMin(Int2Rat(1), RMax(Int2Rat(0), Rat(credit_score - 600, 300)))
        employment_type == Get(customer_data, "employment_type", "")
        employment_factor ==
            IF NameHas(card_details, "business")
               /\ employment_type \in {"Business", "Self-Employed"}
            THEN Pct(90)
            ELSE IF NameHas(card_details, "corporate") /\ employment_type = "Salaried"
            THEN Pct(90)
            ELSE IF NameHas(card_details, "student") /\ employment_type = "Student"
            THEN Pct(90)
            ELSE Pct(70)
        age == Get(customer_data, "age", 30)
        age_factor ==
            IF NameHas(card_details, "student") /\ age < 30 THEN Pct(90)
            ELSE IF (NameHas(card_details, "premium") \/ NameHas(card_details, "elite"))
                    /\ age > 35
            THEN Pct(90)
            ELSE Pct(70)
        success_prob ==
            RMin(Pct(95),
                 RAdd(RAdd(RMul(income_ratio, Pct(40)), RMul(credit_factor, Pct(30))),
                      RAdd(RMul(employment_factor, Pct(20)), RMul(age_factor, Pct(10)))))
        expected_commission ==
            IF \/ NameHas(card_details, "premium")
               \/ NameHas(card_details, "elite")
               \/ NameHas(card_details, "platinum")
            THEN 3000
            ELSE IF NameHas(card_details, "gold") \/ NameHas(card_details, "titanium")
            THEN 2000
            ELSE 1000
    IN  basic_answer(success_prob, expected_commission, customer_data, card_details)

\* sales_data[sales_data['success_flag'] == True]
SuccessfulSales(B) ==
    LET K == {k \in DOMAIN B : k.success_flag}
    IN  [k \in K |-> B[k]]

\* the snapshot (or a selection of it) as train sees it; the stored rows
\* are clean, so fit accepts them
SnapshotFrame(B) ==
    LET rows == Rows(B)
    IN  TrainingFrame(rows, SnapshotColumns, TRUE,
                      Cardinality({k.success_flag : k \in DOMAIN B}),
                      IF rows = 0 THEN NaN
                      ELSE Rat(SumFun([k \in DOMAIN B |-> B[k] * k.commission]), rows))

\* a save_model that leaves the fallback average out of the dictionary
save_model_without_average(p, file) ==
    IF is_trained(p)
    THEN Pickle("dict", [key \in DOMAIN p \ {"avg_commission"} |-> p[key]])
    ELSE file

\* SuccessPredictor.save_model / CommissionPredictor.save_model: the file
\* afterwards (an untrained predictor writes nothing)
save_model(p, file) ==
    IF is_trained(p)
    THEN Pickle("dict", [key \in DOMAIN p |-> p[key]])
    ELSE file

\* SuccessPredictor.load_model
success_load_model(p, file) ==
    IF ~file.exists \/ file.kind = "corrupt" THEN [p |-> p, ret |-> FALSE]
    ELSE LET p1 == IF file.kind = "dict"
                   THEN [model    |-> Get(file.blob, "model", "None"),
                         features |-> Get(file.blob, "features", NoFeatures)]
                   ELSE [model |-> file.blob, features |-> NoFeatures]
         IN  [p |-> p1, ret |-> is_trained(p1)]

\* CommissionPredictor.load_model
commission_load_model(p, file) ==
    IF ~file.exists \/ file.kind = "corrupt" THEN [p |-> p, ret |-> FALSE]
    ELSE LET p1 == IF file.kind = "dict"
                   THEN [model    |-> Get(file.blob, "model", "None"),
                         features |-> Get(file.blob, "features", NoFeatures),
                         avg_commission |->
                             Get(file.blob, "avg_commission", Int2Rat(1000))]
                   ELSE [p EXCEPT !.model = file.blob, !.features = NoFeatures]
         IN  [p |-> p1, ret |-> is_trained(p1)]

\* the saving that closes _train_models: success_predictor.save_model, and
\* commission_predictor.save_model when that predictor is trained
save_models(sp, cp, files) ==
    [sp |-> sp, cp |-> cp,
     files |-> [success_model    |-> save_model(sp, files.success_model),
                commission_model |-> IF is_trained(cp)
                                     THEN save_model(cp, files.commission_model)
                                     ELSE files.commission_model]]

\* _train_models: the predictors and the model directory afterwards
train_models(sp, cp, files, B, available) ==
    IF ~available \/ Rows(B) < 50
    THEN [sp |-> sp, cp |-> cp, files |-> files]
    ELSE save_models(success_train(sp, SnapshotFrame(B)).p,
                     IF Rows(SuccessfulSales(B)) >= 30
                     THEN commission_train(cp, SnapshotFrame(SuccessfulSales(B))).p
                     ELSE cp,
                     files)

\* lines 258-272 of predict_success: the answer built from the success
\* predictor's probability
model_prediction(success_prob, cp, customer_data, card_id) ==
    [is_none |-> FALSE,
     success_probability |-> success_prob.value,
     expected_commission |->
         IF RGt(success_prob.value, Int2Rat(0)) /\ is_trained(cp)
         THEN SomeCommission(predict_commission(cp, customer_data, card_id).value)
         ELSE NoCommission,
     key_factors |-> identify_key_factors(customer_data, CardDetails(card_id),
                                          success_prob.value),
     path |-> success_prob.path]

\* lines 254-272 of predict_success, entered with the predictors t that the
\* training attempt left
predict_after_training(t, customer_data, card_id) ==
    [sp |-> t.sp, cp |-> t.cp, files |-> t.files,
     result |-> IF ~is_trained(t.sp)
                THEN lead_basic_prediction(customer_data, CardDetails(card_id))
                ELSE model_prediction(
                         predict_probability(t.sp, customer_data, card_id),
                         t.cp, customer_data, card_id)]

\* predict_success(customer_data, card_id): the prediction (or None) and the
\* predictors and model directory it leaves
predict_success(sp, cp, files, customer_data, card_id, B, available) ==
    IF ~available \/ card_id \notin KnownCards
    THEN [sp |-> sp, cp |-> cp, files |-> files, result |-> NoPrediction]
    ELSE predict_after_training(
             IF is_trained(sp) THEN [sp |-> sp, cp |-> cp, files |-> files]
             ELSE train_models(sp, cp, files, B, available),
             customer_data, card_id)

\* pd.cut with right=False: each bin holds its left edge
IncomeSegment_left_closed(income) ==
    IF income < 0 THEN "NaN"
    ELSE IF income < 300000 THEN "Low"
    ELSE IF income < 600000 THEN "Medium"
    ELSE IF income < 1000000 THEN "High"
    ELSE "Very High"

\* pd.cut(income, bins=[0, 300000, 600000, 1000000, inf], labels=[...])
\* with the default right=True: each bin holds its right edge and not its
\* left one, so 0 and negative incomes get no label (NaN)
IncomeSegment(income) ==
    IF income <= 0 THEN "NaN"
    ELSE IF income <= 300000 THEN "Low"
    ELSE IF income <= 600000 THEN "Medium"
    ELSE IF income <= 1000000 THEN "High"
    ELSE "Very High"

SegmentLabels == <<"Low", "Medium", "High", "Very High">>
\* the employment types of the rows, in the order groupby sorts them
EmploymentKeys == <<"Business", "Salaried">>

SegmentOf(k) == IncomeSegment(k.customer_income)

\* the value a row has in the column that groupby groups on
GroupKey(k, column) ==
    IF column = "income_segment" THEN SegmentOf(k) ELSE k[column]

\* groupby(key).agg(success_flag count and mean), then the rows with
\* count >= 3 and success_rate >= 0.5, in group order
BestGroups(B, column, keys) ==
    LET stat(key) ==
            LET K == {k \in DOMAIN B : GroupKey(k, column) = key}
                count == CountWhere(B, K)
            IN  [key |-> key, count |-> count,
                 success_rate |->
                     IF count = 0 THEN NaN
                     ELSE Rat(CountWhere(B, {k \in K : k.success_flag}), count)]
        all == [i \in DOMAIN keys |-> stat(keys[i])]
    IN  SelectSeq(all, LAMBDA g : g.count >= 3 /\ RGe(g.success_rate, Pct(50)))


\* the agent's cards with total_sales >= 3 and success_rate >= 0.5
BestCards(agent_sales) ==
    SelectSeq(CardPerformance(agent_sales),
              LAMBDA r : r.total_sales >= 3 /\ RGe(r.success_rate, Pct(50)))

\* Keyed rows [k1, k2, item] in descending (k1, k2) order, rows with equal
\* keys staying in their original order: list.sort(key=..., reverse=True)
\* and the several-keys form of DataFrame.sort_values(ascending=False)
KeyBefore(a, b) ==
    \/ RGt(a.k1, b.k1)
    \/ a.k1 = b.k1 /\ RGt(a.k2, b.k2)

RECURSIVE InsertKeyed(_, _)
InsertKeyed(sorted, row) ==
    IF sorted = << >> THEN <<row>>
    ELSE IF ~KeyBefore(Head(sorted), row) THEN <<row>> \o sorted
    ELSE <<Head(sorted)>> \o InsertKeyed(Tail(sorted), row)

RECURSIVE StableSortDescending(_)
StableSortDescending(s) ==
    IF s = << >> THEN << >>
    ELSE InsertKeyed(StableSortDescending(Tail(s)), Head(s))

\* sort_values(['success_rate', 'avg_commission'], ascending=False).head(3)
NetworkTopCards(B) ==
    LET perf == CardPerformance(B)
        keyed == [i \in DOMAIN perf |->
                     [k1 |-> perf[i].success_rate, k2 |-> perf[i].avg_commission,
                      item |-> perf[i]]]
        sorted == Head_n(StableSortDescending(keyed), 3)
    IN  [i \in DOMAIN sorted |-> sorted[i].item]

\* the beginner_score column of _recommend_leads_for_new_agent
lead_beginner_scores(card_success) ==
    LET max_comm == SeriesMax(Column(card_success, "avg_commission"))
    IN  [i \in DOMAIN card_success |->
            RAdd(RMul(card_success[i].success_rate, Pct(70)),
                 RMul(RDiv(card_success[i].avg_commission, max_comm), Pct(30)))]

\* the state one lead-generation loop threads through its iterations
LoopState(raised, leads, rng, sp, cp, files) ==
    [raised |-> raised, leads |-> leads, rng |-> rng,
     sp |-> sp, cp |-> cp, files |-> files]

\* One pass of the loops at lines 192-216 and 360-386: slots lists the card
\* of every lead to generate, in order.  A lead is kept when its success
\* probability reaches the threshold.  The loop stops at the first
\* exception.
RECURSIVE GenerateLeads(_, _, _, _, _, _, _)

\* the entry leads.append adds
Lead(customer, card_id, prediction) ==
    [customer            |-> customer,
     card_id             |-> card_id,
     success_probability |-> prediction.success_probability,
     expected_commission |-> prediction.expected_commission,
     key_factors         |-> prediction.key_factors,
     path                |-> prediction.path]

\* the rest of an iteration once predict_success has answered p
after_prediction(slots, st, best_segments, best_employment, threshold, float_rejected, B, profile, p) ==
    GenerateLeads(Tail(slots),
        LoopState("None",
                  IF /\ ~p.result.is_none
                     /\ RGe(p.result.success_probability, threshold)
                  THEN Append(st.leads, Lead(profile.customer, Head(slots), p.result))
                  ELSE st.leads,
                  profile.rng, p.sp, p.cp, p.files),
        best_segments, best_employment, threshold, float_rejected, B)

\* the rest of an iteration once _generate_customer_profile has returned
\* (or raised)
after_profile(slots, st, best_segments, best_employment, threshold, float_rejected, B, profile) ==
    IF profile.raised # "None"
    THEN [st EXCEPT !.raised = profile.raised, !.rng = profile.rng]
    ELSE after_prediction(slots, st, best_segments, best_employment, threshold,
                          float_rejected, B, profile,
                          predict_success(st.sp, st.cp, st.files, profile.customer,
                                          Head(slots), B, TRUE))

GenerateLeads(slots, st, best_segments, best_employment, threshold, float_rejected, B) ==
    IF slots = << >> \/ st.raised # "None" THEN st
    ELSE after_profile(slots, st, best_segments, best_employment, threshold,
                       float_rejected, B,
                       generate_customer_profile(CardDetails(Head(slots)),
                           best_segments, best_employment, st.rng, float_rejected))

\* num_leads copies of each card id that has a row in cards_data
RECURSIVE LeadSlots(_, _)
LeadSlots(card_ids, num_leads) ==
    IF card_ids = << >> THEN << >>
    ELSE (IF Head(card_ids) \in KnownCards
          THEN [i \in 1 .. num_leads |-> Head(card_ids)]
          ELSE << >>) \o LeadSlots(Tail(card_ids), num_leads)

\* leads.sort(key=(expected_commission or 0, success_probability), reverse=True)
SortLeads(leads) ==
    LET keyed == [i \in DOMAIN leads |->
                     [k1 |-> leads[i].expected_commission.value,
                      k2 |-> leads[i].success_probability,
                      item |-> leads[i]]]
        sorted == StableSortDescending(keyed)
    IN  [i \in DOMAIN sorted |-> sorted[i].item]

\* the leads in the order the loop appended them
leads_as_generated(leads) == leads

\* leads.sort(key=success_probability, reverse=True)
SortNewAgentLeads(leads) ==
    LET keyed == [i \in DOMAIN leads |->
                     [k1 |-> leads[i].success_probability, k2 |-> Int2Rat(0),
                      item |-> leads[i]]]
        sorted == StableSortDescending(keyed)
    IN  [i \in DOMAIN sorted |-> sorted[i].item]

Seeds == 0 .. NumSeeds - 1

\* the limit query argument of GET /leads is any integer: a negative one,
\* zero, one and the largest
LeadLimits == {-1, 0, 1, MaxLimit}

\* what a recommend_leads call leaves behind: its arguments, the path, the
\* cards and strengths it worked from, the exception that left it (or
\* "None") and the value returned
LeadsAnswer(agent_id, limit, path, card_ids, best_segments, best_employment, raised, leads) ==
    [op |-> "recommend_leads", agent_id |-> agent_id, limit |-> limit,
     path |-> path, card_ids |-> card_ids, best_segments |-> best_segments,
     best_employment |-> best_employment, raised |-> raised,
     is_none |-> FALSE,
     result |-> IF raised = "None" THEN Head_n(leads, limit) ELSE << >>]

LeaveLoop(st) ==
    /\ success_predictor' = st.sp
    /\ commission_predictor' = st.cp
    /\ model_dir' = st.files

\* _recommend_leads_for_new_agent(limit, agent_info)
recommend_leads_for_new_agent(agent_id, limit, x, float_rejected) ==
    \E card_success \in {CardPerformance(sales)} :
    \E order \in SortDescending(lead_beginner_scores(card_success)) :
    \E card_ids \in {[i \in DOMAIN Head_n(order, 3) |-> card_success[order[i]].card_id]} :
    \E st \in {GenerateLeads(LeadSlots(card_ids, 2),
                   LoopState("None", << >>, x, success_predictor,
                             commission_predictor, model_dir),
                   << >>, << >>, Pct(50), float_rejected, sales)} :
        /\ LeaveLoop(st)
        /\ leadsOut' = LeadsAnswer(agent_id, limit, "new_agent", card_ids, << >>,
                                   << >>, st.raised, SortNewAgentLeads(st.leads))

\* recommend_leads(agent_id, limit).  Selecting the agent_id column of a
\* snapshot without a record raises, as in recommend_cards.
recommend_leads(agent_id, limit) ==
    /\ phase # "loading"
    /\ leadsOut = Idle
    /\ IF phase = "unavailable"
       THEN /\ leadsOut' = [op |-> "recommend_leads", agent_id |-> agent_id,
                            limit |-> limit, path |-> "none", raised |-> "None",
                            is_none |-> TRUE]
            /\ UNCHANGED <<success_predictor, commission_predictor, model_dir>>
       ELSE IF Rows(sales) = 0
       THEN /\ leadsOut' = [op |-> "recommend_leads", agent_id |-> agent_id,
                            limit |-> limit, path |-> "none", raised |-> "KeyError",
                            is_none |-> TRUE]
            /\ UNCHANGED <<success_predictor, commission_predictor, model_dir>>
       ELSE \E x \in Seeds :
            IF Rows(AgentSales(sales, agent_id)) = 0
            THEN recommend_leads_for_new_agent(agent_id, limit, x, FALSE)
            ELSE \E agent_sales \in {AgentSales(sales, agent_id)} :
                 \E best \in {BestCards(agent_sales)},
                    segments \in {BestGroups(agent_sales, "income_segment", SegmentLabels)},
                    employment \in {BestGroups(agent_sales, "customer_employment",
                                               EmploymentKeys)} :
                 \E card_order \in SortDescending(
                        [i \in DOMAIN best |-> Int2Rat(best[i].commission)]),
                    segment_order \in SortDescending(
                        [i \in DOMAIN segments |-> segments[i].success_rate]),
                    employment_order \in SortDescending(
                        [i \in DOMAIN employment |-> employment[i].success_rate]) :
                 \E best_cards \in
                        {IF Len(best) = 0 THEN NetworkTopCards(sales)
                         ELSE [i \in DOMAIN Head_n(card_order, 3) |->
                                  best[card_order[i]]]},
                    best_segment_list \in
                        {[i \in DOMAIN segments |-> segments[segment_order[i]].key]},
                    best_employment_list \in
                        {[i \in DOMAIN employment |->
                             employment[employment_order[i]].key]} :
                 \E card_ids \in {[i \in DOMAIN best_cards |-> best_cards[i].card_id]} :
                 \* the interpreter's randint matters only to a 'Low' draw
                 \E float_rejected \in IF Len(best_segment_list) > 0
                                       THEN BOOLEAN ELSE {FALSE} :
                 \E st \in {GenerateLeads(
                               LeadSlots(card_ids,
                                         IF Len(card_ids) = 0 THEN 0
                                         ELSE Max2(1, limit \div Len(card_ids))),
                               LoopState("None", << >>, x, success_predictor,
                                         commission_predictor, model_dir),
                               best_segment_list, best_employment_list, Pct(40),
                               float_rejected, sales)} :
                     /\ LeaveLoop(st)
                     /\ leadsOut' = LeadsAnswer(agent_id, limit, "history", card_ids,
                                        best_segment_list, best_employment_list,
                                        st.raised, SortLeads(st.leads))
    /\ UNCHANGED <<phase, sales, beside_leads>>

\* the response has been handed to the caller
ReturnLeads ==
    /\ leadsOut # Idle
    /\ leadsOut' = Idle
    /\ UNCHANGED <<phase, sales, success_predictor, commission_predictor,
                   model_dir, beside_leads>>

\* POST /predict-success -> LeadService.predict_success(customer_data, card_id)
PredictSuccess(customer_data, card_id) ==
    /\ phase # "loading"
    /\ leadsOut = Idle
    /\ \E p \in {predict_success(success_predictor, commission_predictor,
                                 model_dir, customer_data, card_id, sales,
                                 phase = "serving")} :
        /\ LeaveLoop(p)
        /\ leadsOut' = [op |-> "predict_success", customer_data |-> customer_data,
                        card_id |-> card_id, raised |-> "None",
                        was_trained |-> is_trained(success_predictor)
                                        \/ is_trained(commission_predictor),
                        result |-> p.result]
    /\ UNCHANGED <<phase, sales, beside_leads>>

\* customers a caller asks about: a strong salaried applicant, a weak one,
\* and a request that names no attribute
Customers ==
    {[income |-> 1200000, credit_score |-> 800, age |-> 40,
      employment_type |-> "Salaried"],
     [income |-> 150000, credit_score |-> 620, age |-> 19,
      employment_type |-> "Student"],
     [employment_type |-> "Business"]}

\* the rows of agent 1: two cards, both outcomes, a low and a high income,
\* salaried customers and two business customers; agent 2 has no row of
\* its own
LeadSaleRows ==
    {SaleRow(1, c, ok, IF ok THEN 1000 ELSE 0, 1, inc, "Salaried") :
        c \in {1, 2}, ok \in BOOLEAN, inc \in {250000, 700000}}
    \cup {SaleRow(1, 2, TRUE, 1000, 1, inc, "Business") : inc \in {250000, 700000}}
    \cup {SaleRow(1, 3, TRUE, 2000, 1, 250000, "Salaried")}

\* a history long enough to train on: 30 sales and 20 failed applications
\* of agent 2
BatchWon == SaleRow(2, 1, TRUE, 1500, 1, 700000, "Salaried")
BatchLost == SaleRow(2, 2, FALSE, 0, 1, 250000, "Salaried")
StoreBatch ==
    /\ phase = "loading"
    /\ ~BagIn(BatchWon, sales)
    /\ sales' = sales (+) [k \in {BatchWon, BatchLost} |->
                              IF k = BatchWon THEN 30 ELSE 20]
    /\ UNCHANGED <<phase, cardsOut, beside_cards>>

\* model files an earlier run of the service left behind
TrainedFiles ==
    [success_model |->
         Pickle("dict", [model |-> "fitted", features |-> Features(FeatureOrder)]),
     commission_model |->
         Pickle("dict", [model |-> "fitted", features |-> Features(FeatureOrder),
                         avg_commission |-> Int2Rat(1200)])]

\* LeadService.__init__, which is where the snapshot is first loaded: the
\* predictors are read from the model directory when both files exist and
\* trained from the snapshot otherwise
LeadService_init ==
    /\ phase = "loading"
    /\ \E ok \in BOOLEAN :
        /\ phase' = IF ok THEN "serving" ELSE "unavailable"
        /\ IF model_dir.success_model.exists /\ model_dir.commission_model.exists
           THEN /\ success_predictor' =
                       success_load_model(success_predictor,
                                          model_dir.success_model).p
                /\ commission_predictor' =
                       commission_load_model(commission_predictor,
                                             model_dir.commission_model).p
                /\ UNCHANGED model_dir
           ELSE \E t \in {train_models(success_predictor, commission_predictor,
                                       model_dir, sales, ok)} : LeaveLoop(t)
    /\ UNCHANGED <<sales, leadsOut, beside_leads>>

\* DataLoader caches only a successful load: a later call loads again, and
\* finds the data once the store has become readable
SnapshotArrives ==
    /\ phase = "unavailable"
    /\ cardsOut = Idle /\ leadsOut = Idle /\ forecastOut = Idle
    /\ phase' = "serving"
    /\ UNCHANGED <<sales, cardsOut, beside_cards>>

InitLeads ==
    /\ phase = "loading"
    /\ sales = EmptyBag
    /\ cardsOut = Idle
    /\ success_predictor = NewSuccessPredictor
    /\ commission_predictor = NewCommissionPredictor
    /\ model_dir \in {NoFiles, TrainedFiles}
    /\ leadsOut = Idle
    /\ predOut = Idle
    /\ forecastOut = Idle
    /\ sales_columns = SnapshotColumns
    /\ requests = Idle

NextLeads ==
    \/ StoreSale(LeadSaleRows)
    \/ StoreBatch
    \/ LeadService_init
    \/ SnapshotArrives
    \/ \E agent_id \in Agents, limit \in LeadLimits : recommend_leads(agent_id, limit)
    \/ \E customer_data \in Customers, card_id \in KnownCards \cup {0} :
           PredictSuccess(customer_data, card_id)
    \/ ReturnLeads

SpecLeads == InitLeads /\ [][NextLeads]_vars

(***************************************************************************)
(* Claims about LeadService.                                               *)
(***************************************************************************)
LeadsAnswered == leadsOut.op = "recommend_leads"
PredictAnswered == leadsOut.op = "predict_success"

\* C1: recommend_leads completes with a list (or None) and never raises,
\* for every agent with sales history and every card set: also when the
\* agent has a best employment type and when the best income segment is
\* 'Low' while the card's minimum income is above 300000.
C1_RecommendLeadsNeverRaises ==
    (LeadsAnswered /\ leadsOut.path = "history") => leadsOut.raised = "None"

\* C4: with both predictors untrained, predict_success for an existing card
\* returns the success heuristic clamp(0.3 + 0.3*creditFactor +
\* 0.3*incomeFactor + 0.1*ageFactor, 0.1, 0.9), which is 0.9 for the card
\* with eligibility "Income > 500000" and the customer with income 1200000,
\* credit score 800, age 40, Salaried.
C4_UntrainedUsesSuccessHeuristic ==
    (/\ PredictAnswered
     /\ phase = "serving"
     /\ ~leadsOut.was_trained
     /\ leadsOut.card_id \in KnownCards)
    => /\ ~leadsOut.result.is_none
       /\ leadsOut.result.success_probability =
              success_basic_prediction(leadsOut.customer_data)
       /\ (/\ leadsOut.card_id = 1
           /\ leadsOut.customer_data =
                  [income |-> 1200000, credit_score |-> 800, age |-> 40,
                   employment_type |-> "Salaried"])
          => leadsOut.result.success_probability = Pct(90)

\* recommend_leads has returned a list
LeadsListed == LeadsAnswered /\ leadsOut.raised = "None" /\ ~leadsOut.is_none

\* lead a does not come after lead b in descending (expected_commission or
\* 0, success_probability) order
CommissionThenProbabilityGe(a, b) ==
    \/ RGt(a.expected_commission.value, b.expected_commission.value)
    \/ /\ a.expected_commission.value = b.expected_commission.value
       /\ RGe(a.success_probability, b.success_probability)

\* every lead reaches the threshold of its path
LeadsFiltered ==
    \A i \in DOMAIN leadsOut.result :
        RGe(leadsOut.result[i].success_probability,
            IF leadsOut.path = "history" THEN Pct(40) ELSE Pct(50))

C22_LeadIncomeAboveMinimum ==
    LeadsListed =>
        \A i \in DOMAIN leadsOut.result :
            leadsOut.result[i].customer.income
                > ParseMinIncome(CardDetails(leadsOut.result[i].card_id)).value

(***************************************************************************)
(* Income segmentation on its own: the income_segment column that          *)
(* recommend_leads, recommend_cards and the agent insights add to the      *)
(* agent's rows.                                                           *)
(***************************************************************************)
\* incomes at, just below and just above every multiple of 50000
Incomes ==
    {i \in {k * 50000 + d : k \in 0 .. IncomeSteps, d \in {-1, 0, 1}} : i >= 0}

\* agent_sales['income_segment'] = pd.cut(agent_sales['customer_income'], ...)
CutIncome ==
    /\ phase = "serving"
    /\ leadsOut = Idle
    /\ \E k \in DOMAIN sales :
           leadsOut' = [op |-> "income_segment", income |-> k.customer_income,
                        income_segment |-> SegmentOf(k)]
    /\ UNCHANGED <<phase, sales, success_predictor, commission_predictor,
                   model_dir, beside_leads>>

InitSegment ==
    /\ phase = "serving"
    /\ \E income \in Incomes :
           sales = SetToBag({SaleRow(1, 1, TRUE, 1000, 1, income, "Salaried")})
    /\ cardsOut = Idle
    /\ success_predictor = NewSuccessPredictor
    /\ commission_predictor = NewCommissionPredictor
    /\ model_dir = NoFiles
    /\ leadsOut = Idle
    /\ predOut = Idle
    /\ forecastOut = Idle
    /\ sales_columns = SnapshotColumns
    /\ requests = Idle

NextSegment == CutIncome

SpecSegment == InitSegment /\ [][NextSegment]_vars

IncomeCut == leadsOut.op = "income_segment"

\* C3 as stated: the segments are [0,300000) = Low, [300000,600000) =
\* Medium, [600000,1000000) = High, [1000000,inf) = Very High, lower bound
\* inclusive and upper bound exclusive (so 300000 is Medium and 0 is Low),
\* and every non-negative income has exactly one segment.
C3_SegmentsLowerInclusive ==
    IncomeCut =>
        LET income == leadsOut.income
            segment == leadsOut.income_segment
        IN  /\ segment \in Range(SegmentLabels)
            /\ segment = "Low" <=> (0 <= income /\ income < 300000)
            /\ segment = "Medium" <=> (300000 <= income /\ income < 600000)
            /\ segment = "High" <=> (600000 <= income /\ income < 1000000)
            /\ segment = "Very High" <=> 1000000 <= income

\* C3 amended: the segments are (0,300000] = Low, (300000,600000] = Medium,
\* (600000,1000000] = High, (1000000,inf) = Very High, upper bound inclusive
\* and lower bound exclusive (so 300000 is Low, 600000 Medium, 1000000
\* High); income 0 has no segment, and every positive income has exactly
\* one.
C3_SegmentsUpperInclusive ==
    IncomeCut =>
        LET income == leadsOut.income
            segment == leadsOut.income_segment
        IN  /\ income > 0 <=> segment \in Range(SegmentLabels)
            /\ income = 0 => segment = "NaN"
            /\ segment = "Low" <=> (0 < income /\ income <= 300000)
            /\ segment = "Medium" <=> (300000 < income /\ income <= 600000)
            /\ segment = "High" <=> (600000 < income /\ income <= 1000000)
            /\ segment = "Very High" <=> 1000000 < income

C3_BoundarySegmented ==
    /\ IncomeCut
    /\ leadsOut.income = 300000
    /\ leadsOut.income_segment = "Low"

(***************************************************************************)
(* The predictors on their own: one predictor object, success or           *)
(* commission, driven through train, predict, save and load in any order.  *)
(* The two classes share no state, so each behaviour exercises one.        *)
(***************************************************************************)
PredictorCall(predictor, op, ret, was_trained, path, rejected, value) ==
    [predictor |-> predictor, op |-> op, ret |-> ret,
     was_trained |-> was_trained, path |-> path, rejected |-> rejected,
     value |-> value]

\* training frames on both sides of the row thresholds (50 and 30), with
\* and without the required and the optional columns, that fit accepts or
\* not, with one or both classes of success_flag
TrainingRows == {29, 30, 49, 50}
TrainingColumns ==
    {SnapshotColumns,
     SnapshotColumns \ {"card_id"},
     {"success_flag", "commission", "card_id"}}
TrainingFrames ==
    {NoFrame} \cup
    {TrainingFrame(rows, columns, fit_ok, classes, Int2Rat(900)) :
        rows \in TrainingRows, columns \in TrainingColumns,
        fit_ok \in BOOLEAN, classes \in {1, 2}}

\* would train return before it touches the predictor?
TrainRejects(frame, min_rows, required) ==
    \/ frame.is_none
    \/ frame.rows < min_rows
    \/ ~(required \subseteq frame.columns)

\* model files: none, what save_model writes, a dict without a model, a
\* pickled object that is no dict, an unreadable file
SuccessFiles ==
    {NoFile,
     Pickle("dict", [model |-> "fitted", features |-> Features(FeatureOrder)]),
     Pickle("dict", [features |-> Features(FeatureOrder)]),
     Pickle("object", "junk"),
     Pickle("corrupt", "junk")}
CommissionFiles ==
    {NoFile,
     Pickle("dict", [model |-> "fitted", features |-> Features(FeatureOrder),
                     avg_commission |-> Int2Rat(1200)]),
     Pickle("dict", [model |-> "fitted", features |-> Features(FeatureOrder)]),
     Pickle("object", "junk"),
     Pickle("corrupt", "junk")}

SuccessUnderTest == predOut.predictor = "success"
CommissionUnderTest == predOut.predictor = "commission"

TrainSuccess(frame) ==
    /\ SuccessUnderTest
    /\ \E r \in {success_train(success_predictor, frame)} :
        /\ success_predictor' = r.p
        /\ predOut' = PredictorCall("success", "train", r.ret,
                          is_trained(success_predictor), "none",
                          TrainRejects(frame, 50, {"success_flag", "card_id"}),
                          Int2Rat(0))
    /\ UNCHANGED <<phase, sales, commission_predictor, model_dir, beside_predictors>>

TrainCommission(frame) ==
    /\ CommissionUnderTest
    /\ \E r \in {commission_train(commission_predictor, frame)} :
        /\ commission_predictor' = r.p
        /\ predOut' = PredictorCall("commission", "train", r.ret,
                          is_trained(commission_predictor), "none",
                          TrainRejects(frame, 30, {"commission", "card_id"}),
                          Int2Rat(0))
    /\ UNCHANGED <<phase, sales, success_predictor, model_dir, beside_predictors>>

PredictProbability(customer_data, card_id) ==
    /\ SuccessUnderTest
    /\ \E r \in {predict_probability(success_predictor, customer_data, card_id)} :
        predOut' = PredictorCall("success", "predict", TRUE,
                       is_trained(success_predictor), r.path, FALSE, r.value)
    /\ UNCHANGED <<phase, sales, success_predictor, commission_predictor,
                   model_dir, beside_predictors>>

PredictCommission(customer_data, card_id) ==
    /\ CommissionUnderTest
    /\ \E r \in {predict_commission(commission_predictor, customer_data, card_id)} :
        predOut' = PredictorCall("commission", "predict", TRUE,
                       is_trained(commission_predictor), r.path, FALSE, r.value)
    /\ UNCHANGED <<phase, sales, success_predictor, commission_predictor,
                   model_dir, beside_predictors>>

SaveSuccess ==
    /\ SuccessUnderTest
    /\ model_dir' = [model_dir EXCEPT !.success_model =
                         save_model(success_predictor, @)]
    /\ predOut' = PredictorCall("success", "save", is_trained(success_predictor),
                      is_trained(success_predictor), "none", FALSE, Int2Rat(0))
    /\ UNCHANGED <<phase, sales, success_predictor, commission_predictor,
                   beside_predictors>>

SaveCommission ==
    /\ CommissionUnderTest
    /\ model_dir' = [model_dir EXCEPT !.commission_model =
                         save_model(commission_predictor, @)]
    /\ predOut' = PredictorCall("commission", "save",
                      is_trained(commission_predictor),
                      is_trained(commission_predictor), "none", FALSE, Int2Rat(0))
    /\ UNCHANGED <<phase, sales, success_predictor, commission_predictor,
                   beside_predictors>>

LoadSuccess ==
    /\ SuccessUnderTest
    /\ \E r \in {success_load_model(success_predictor, model_dir.success_model)} :
        /\ success_predictor' = r.p
        /\ predOut' = PredictorCall("success", "load", r.ret,
                          is_trained(success_predictor), "none", FALSE, Int2Rat(0))
    /\ UNCHANGED <<phase, sales, commission_predictor, model_dir, beside_predictors>>

LoadCommission ==
    /\ CommissionUnderTest
    /\ \E r \in {commission_load_model(commission_predictor,
                                       model_dir.commission_model)} :
        /\ commission_predictor' = r.p
        /\ predOut' = PredictorCall("commission", "load", r.ret,
                          is_trained(commission_predictor), "none", FALSE,
                          Int2Rat(0))
    /\ UNCHANGED <<phase, sales, success_predictor, model_dir, beside_predictors>>

\* a predictor constructed afterwards (LeadService.__init__ at the next
\* start of the service) loads the file of the predictor under test; q is
\* that predictor after its load_model, and after_save tells that the call
\* before was a save_model that returned True
LoadFresh ==
    /\ predOut.op # "load_fresh"
    /\ \E r \in {IF SuccessUnderTest
                 THEN success_load_model(NewSuccessPredictor,
                                         model_dir.success_model)
                 ELSE commission_load_model(NewCommissionPredictor,
                                            model_dir.commission_model)} :
        predOut' = [predictor |-> predOut.predictor, op |-> "load_fresh",
                    ret |-> r.ret,
                    was_trained |-> IF SuccessUnderTest
                                    THEN is_trained(success_predictor)
                                    ELSE is_trained(commission_predictor),
                    path |-> "none", rejected |-> FALSE, value |-> Int2Rat(0),
                    q |-> r.p,
                    after_save |-> predOut.op = "save" /\ predOut.ret]
    /\ UNCHANGED <<phase, sales, success_predictor, commission_predictor,
                   model_dir, beside_predictors>>

InitPred ==
    /\ phase = "serving"
    /\ sales = EmptyBag
    /\ cardsOut = Idle
    /\ success_predictor = NewSuccessPredictor
    /\ commission_predictor = NewCommissionPredictor
    /\ \E s \in SuccessFiles, c \in CommissionFiles :
           model_dir = [success_model |-> s, commission_model |-> c]
    /\ leadsOut = Idle
    /\ \E predictor \in {"success", "commission"} :
           predOut = PredictorCall(predictor, "new", TRUE, FALSE, "none", FALSE,
                                   Int2Rat(0))
    /\ forecastOut = Idle
    /\ sales_columns = SnapshotColumns
    /\ requests = Idle

NextPred ==
    \/ \E frame \in TrainingFrames : TrainSuccess(frame)
    \/ \E frame \in TrainingFrames : TrainCommission(frame)
    \/ \E customer_data \in Customers, card_id \in Cards :
           PredictProbability(customer_data, card_id)
    \/ \E customer_data \in Customers, card_id \in Cards :
           PredictCommission(customer_data, card_id)
    \/ SaveSuccess
    \/ SaveCommission
    \/ LoadSuccess
    \/ LoadCommission
    \/ LoadFresh

SpecPred == InitPred /\ [][NextPred]_vars

PredictorUnderTest ==
    IF SuccessUnderTest THEN success_predictor ELSE commission_predictor

\* C10: a predictor starts untrained and becomes trained only by a
\* successful fit or a successful load; once trained it stays trained
\* across predict and save calls and train calls rejected for too few rows
\* or missing columns; while it is untrained every predict call takes the
\* heuristic (fallback) path.
C10_TrainedOnlyBySuccessfulFit ==
    predOut.op # "idle" =>
        /\ predOut.op = "new" => ~is_trained(PredictorUnderTest)
        /\ (~predOut.was_trained /\ is_trained(PredictorUnderTest))
               => (predOut.op \in {"train", "load"} /\ predOut.ret)
        /\ (/\ predOut.was_trained
            /\ \/ predOut.op \in {"predict", "save"}
               \/ predOut.op = "train" /\ predOut.rejected)
               => is_trained(PredictorUnderTest)
        /\ (~predOut.was_trained /\ predOut.op = "predict")
               => predOut.path \in {"heuristic", "fallback"}


\* the predictor under test and the predictor that loaded its file answer
\* every input alike
SamePredictions(p, q) ==
    \A customer_data \in Customers, card_id \in Cards :
        IF SuccessUnderTest
        THEN predict_probability(p, customer_data, card_id)
                 = predict_probability(q, customer_data, card_id)
        ELSE predict_commission(p, customer_data, card_id)
                 = predict_commission(q, customer_data, card_id)

\* a save_model that returned True has just been followed by load_model on
\* a newly constructed predictor
RoundTripDone == predOut.op = "load_fresh" /\ predOut.after_save

C13_InferenceErrorFallsBack ==
    [][( /\ predOut'.op = "predict"
         /\ is_trained(PredictorUnderTest)
         /\ ProbaRaises(PredictorUnderTest) \/ PredictRaises(PredictorUnderTest) )
       => \A customer_data \in Customers, card_id \in Cards :
            /\ ( /\ PredictProbability(customer_data, card_id)
                 /\ ProbaRaises(success_predictor) )
                   => /\ predOut'.ret
                      /\ predOut'.path = "except"
                      /\ predOut'.value = success_basic_prediction(customer_data)
            /\ ( /\ PredictCommission(customer_data, card_id)
                 /\ PredictRaises(commission_predictor) )
                   => /\ predOut'.ret
                      /\ predOut'.path = "except"
                      /\ predOut'.value = commission_predictor.avg_commission]_vars

\* a trained success predictor without a feature list has answered a
\* predict call
C13_FeaturelessPredictorAnswered ==
    /\ predOut.op = "predict"
    /\ predOut.path = "except"
    /\ SuccessUnderTest
    /\ is_trained(success_predictor)
    /\ success_predictor.features.is_none

\* the columns train can take as features
FeatureColumns ==
    {"customer_age", "customer_income", "customer_credit_score",
     "customer_employment", "card_id"}

\* train returned True, and the predictor p it leaves is trained and holds
\* as feature list, without repetition, the feature columns the frame has
TrainedOn(frame, ret, p) ==
    /\ ret
    /\ is_trained(p)
    /\ ~p.features.is_none
    /\ {p.features.list[i] : i \in DOMAIN p.features.list}
           = FeatureColumns \cap frame.columns
    /\ Len(p.features.list) = Cardinality(FeatureColumns \cap frame.columns)

\* C20: train returns False when given fewer than 50 rows (success
\* predictor) or fewer than 30 rows of successful sales (commission
\* predictor), or when a required column (the label or card_id) is absent;
\* otherwise it returns True with the stored feature list equal to the
\* subset of the five feature columns present in the data.
C20_TrainReturnsTrainedOtherwise ==
    [][predOut'.op = "train" =>
          \A frame \in TrainingFrames :
              /\ ( /\ SuccessUnderTest
                   /\ predOut'.rejected
                          = TrainRejects(frame, 50, {"success_flag", "card_id"})
                   /\ TrainSuccess(frame) ) =>
                     IF TrainRejects(frame, 50, {"success_flag", "card_id"})
                     THEN ~predOut'.ret
                     ELSE TrainedOn(frame, predOut'.ret, success_predictor')
              /\ ( /\ CommissionUnderTest
                   /\ predOut'.rejected
                          = TrainRejects(frame, 30, {"commission", "card_id"})
                   /\ TrainCommission(frame) ) =>
                     IF TrainRejects(frame, 30, {"commission", "card_id"})
                     THEN ~predOut'.ret
                     ELSE TrainedOn(frame, predOut'.ret, commission_predictor')]_vars

\* C20, with the frames on which fitting raises counted among those train
\* returns False for: train returns False on them too, and otherwise True
\* with the feature list described above.
C20_TrainReturnsTrainedUnlessFitRaises ==
    [][predOut'.op = "train" =>
          \A frame \in TrainingFrames :
              /\ ( /\ SuccessUnderTest
                   /\ predOut'.rejected
                          = TrainRejects(frame, 50, {"success_flag", "card_id"})
                   /\ TrainSuccess(frame) ) =>
                     IF \/ TrainRejects(frame, 50, {"success_flag", "card_id"})
                        \/ ~frame.fit_ok
                     THEN ~predOut'.ret
                     ELSE TrainedOn(frame, predOut'.ret, success_predictor')
              /\ ( /\ CommissionUnderTest
                   /\ predOut'.rejected
                          = TrainRejects(frame, 30, {"commission", "card_id"})
                   /\ TrainCommission(frame) ) =>
                     IF \/ TrainRejects(frame, 30, {"commission", "card_id"})
                        \/ ~frame.fit_ok
                     THEN ~predOut'.ret
                     ELSE TrainedOn(frame, predOut'.ret, commission_predictor')]_vars

\* a success predictor has been trained on a frame whose only feature
\* column is card_id
C20_TrainedOnCardIdAlone ==
    /\ predOut.op = "train"
    /\ predOut.ret
    /\ SuccessUnderTest
    /\ is_trained(success_predictor)
    /\ success_predictor.features = Features(<<"card_id">>)

\* the model file of the predictor under test
FileUnderTest ==
    IF SuccessUnderTest THEN model_dir.success_model
    ELSE model_dir.commission_model

\* a missing file, an unreadable one, a dictionary without a model, or a
\* stored value that is no dictionary
MalformedFile(file) ==
    \/ ~file.exists
    \/ file.kind \in {"corrupt", "object"}
    \/ file.kind = "dict" /\ "model" \notin DOMAIN file.blob

\* C11: load_model on a missing file or on a malformed blob (a dictionary
\* without a fitted model, or a stored value that is no predictor blob at
\* all) returns False, for both predictors (load_model catches every
\* exception, so it never raises)
C11_MalformedLoadReturnsFalse ==
    (predOut.op = "load" /\ MalformedFile(FileUnderTest)) => ~predOut.ret

(***************************************************************************)
(* ForecastService (src/services/forecast_service.py).                     *)
(*                                                                         *)
(* Floats are exact rationals here.  A calendar month is an integer, the   *)
(* next month being the next integer; the rows of the snapshot carry the   *)
(* month of their date.  The agents table only supplies agent_info, which  *)
(* is handed through to the answer unchanged, and is left out.             *)
(***************************************************************************)
\* Python's round(x) on a float: the nearest integer, a tie going to the
\* even neighbour
PyRound(a) ==
    LET fl == a.n \div a.d
        twice == 2 * (a.n - fl * a.d)
    IN  IF twice < a.d THEN fl
        ELSE IF twice > a.d THEN fl + 1
        ELSE IF fl % 2 = 0 THEN fl ELSE fl + 1

\* sum(...) over a list of floats, left to right from the integer 0
RECURSIVE RSum(_)
RSum(s) == IF s = << >> THEN Int2Rat(0) ELSE RAdd(RSum(SubSeq(s, 1, Len(s) - 1)), s[Len(s)])

\* Series.mean()
RMean(s) == IF s = << >> THEN NaN ELSE RDiv(RSum(s), Int2Rat(Len(s)))

RECURSIVE RInsert(_, _)
RInsert(x, sorted) ==
    IF sorted = << >> THEN <<x>>
    ELSE IF RLe(x, Head(sorted)) THEN <<x>> \o sorted
    ELSE <<Head(sorted)>> \o RInsert(x, Tail(sorted))

RECURSIVE RSort(_)
\* the values of a series in ascending order
RSort(s) == IF s = << >> THEN << >> ELSE RInsert(Head(s), RSort(Tail(s)))

\* Series.quantile(q) with the default linear interpolation, q = qn/qd
Quantile(s, qn, qd) ==
    IF s = << >> THEN NaN
    ELSE LET v == RSort(s)
             lo == (qn * (Len(s) - 1)) \div qd
             frac == Rat(qn * (Len(s) - 1) - lo * qd, qd)
         IN  IF frac.n = 0 THEN v[lo + 1]
             ELSE RAdd(v[lo + 1], RMul(frac, RSub(v[lo + 2], v[lo + 1])))

\* series[series.between(left, right)]: both ends inclusive
Between(s, left, right) == SelectSeq(s, LAMBDA x : RLe(left, x) /\ RLe(x, right))

\* np.linspace(0.5, 1.0, n)
linspace_weights(n) ==
    [i \in 1 .. n |-> IF n = 1 THEN Rat(1, 2) ELSE Rat(n - 1 + (i - 1), 2 * (n - 1))]

\* (column * weights).sum() / weights.sum()
weighted_average(column, weights) ==
    RDiv(RSum([i \in DOMAIN column |-> RMul(column[i], weights[i])]), RSum(weights))

\* one row of agent_sales.groupby('month_year').agg(...) with the
\* success_rate and avg_commission columns added
MonthRow(B, month) ==
    LET K == {k \in DOMAIN B : k.month = month}
        won == {k \in K : k.success_flag}
    IN  [month_year |-> month,
         total_sales |-> CountWhere(B, K),
         successful_sales |-> CountWhere(B, won),
         commission |-> SumFun([k \in K |-> B[k] * k.commission]),
         success_rate |-> calculate_success_rate(CountWhere(B, won), CountWhere(B, K)),
         avg_commission |->
             calculate_avg_commission(SumFun([k \in K |-> B[k] * k.commission]),
                                      CountWhere(B, won))]

\* the monthly frame, sorted by date
MonthlyPerformance(B) ==
    LET months == SortedSeq({k.month : k \in DOMAIN B})
    IN  [i \in DOMAIN months |-> MonthRow(B, months[i])]

\* monthly['sales_growth'].dropna(): the first month has no previous month
SalesGrowth(totals) ==
    [i \in 1 .. Len(totals) - 1 |->
        RDiv(Int2Rat(totals[i + 1] - totals[i]),
             Int2Rat(IF totals[i] = 0 THEN 1 ELSE totals[i]))]

\* the growth rates between the 5% and the 95% quantile, averaged; 5% when
\* none is left
average_growth_rate(growth_rates) ==
    LET kept == Between(growth_rates, Quantile(growth_rates, 1, 20),
                        Quantile(growth_rates, 19, 20))
    IN  IF Len(kept) > 0 THEN RMean(kept) ELSE Rat(5, 100)


\* the threshold tests taken with <= in the place of <
suggestions_at_or_below_thresholds(sales_growth, success_rate, avg_commission) ==
    (IF RLe(success_rate, Rat(7, 10)) THEN <<"Improve Approval Rate">> ELSE << >>)
    \o (IF RLe(sales_growth, Rat(1, 10)) THEN <<"Increase Sales Volume">> ELSE << >>)
    \o (IF RLe(avg_commission, Int2Rat(2000)) THEN <<"Optimize Product Mix">> ELSE << >>)

\* the category of each suggestion stands for the suggestion
ThresholdSuggestions(sales_growth, success_rate, avg_commission) ==
    (IF RLt(success_rate, Rat(7, 10)) THEN <<"Improve Approval Rate">> ELSE << >>)
    \o (IF RLt(sales_growth, Rat(1, 10)) THEN <<"Increase Sales Volume">> ELSE << >>)
    \o (IF RLt(avg_commission, Int2Rat(2000)) THEN <<"Optimize Product Mix">> ELSE << >>)

GenericSuggestions == <<"Enhance Sales Technique", "Use Data-Driven Insights">>

\* get_optimization_suggestions once the three metrics are known
suggestions_for(sales_growth, success_rate, avg_commission) ==
    ThresholdSuggestions(sales_growth, success_rate, avg_commission)
    \o GenericSuggestions

\* the optimization list _generate_new_agent_forecast returns
OnboardingPlaylist ==
    <<"Build Strong Foundation", "Use AI Tools from Day One", "Set Achievable Goals">>

\* the metrics get_optimization_suggestions derives for an agent when it is
\* called without them; agent_sales is the agent's selection of the snapshot
agent_metrics(agent_sales, columns) ==
    IF Rows(agent_sales) = 0
    THEN [sales_growth |-> Rat(5, 100), success_rate |-> Rat(1, 2),
          avg_commission |-> Int2Rat(1000)]
    ELSE [sales_growth |->
              IF "date" \in columns /\ Len(MonthlyPerformance(agent_sales)) >= 2
              THEN RMean(SalesGrowth([i \in DOMAIN MonthlyPerformance(agent_sales) |->
                                         MonthlyPerformance(agent_sales)[i].total_sales]))
              ELSE Rat(5, 100),
          success_rate |->
              calculate_success_rate(
                  CountWhere(agent_sales, {k \in DOMAIN agent_sales : k.success_flag}),
                  Rows(agent_sales)),
          avg_commission |->
              calculate_avg_commission(
                  SumFun([k \in DOMAIN agent_sales |-> agent_sales[k] * k.commission]),
                  CountWhere(agent_sales, {k \in DOMAIN agent_sales : k.success_flag}))]

\* sum(month['commission'] for month in forecast)
SumCommission(forecast) == RSum([i \in DOMAIN forecast |-> forecast[i].commission])

\* the months before this one only
cumulative_commission_without_this_month(forecast, commission) ==
    SumCommission(forecast)
\* the cumulative commission of the month being appended (the same
\* expression in both forecast loops)
cumulative_commission(forecast, commission) ==
    RAdd(SumCommission(forecast), commission)

\* the record appended for one forecast month
ForecastMonth(month, total_sales, successful_sales, success_rate, commission, forecast) ==
    [month |-> month, total_sales |-> total_sales,
     successful_sales |-> successful_sales, success_rate |-> success_rate,
     commission |-> commission,
     cumulative_commission |-> cumulative_commission(forecast, commission)]

\* the trend plus the month's variation, not kept within bounds
growth_with_variation(growth_rate, variation) == RAdd(growth_rate, variation)

\* the growth rate of one month: the trend plus the month's variation, kept
\* between -15% and 35%
adjusted_growth(growth_rate, variation) ==
    RMax(Rat(-15, 100), RMin(RAdd(growth_rate, variation), Rat(35, 100)))

\* max(1, round(sales * (1 + growth)))
grown_sales(sales_count, growth) ==
    Max2(1, PyRound(RMul(Int2Rat(sales_count), RAdd(Int2Rat(1), growth))))

\* round(total_sales * success_rate)
forecast_successful_sales(total_sales, success_rate) ==
    PyRound(RMul(Int2Rat(total_sales), success_rate))

RECURSIVE ForecastLoop(_, _, _, _)
\* the loop of _generate_forecast_data from month i on; total_sales is the
\* month's forecast and p holds what the loop does not change
ForecastLoop(i, forecast, total_sales, p) ==
    IF i > p.forecast_months THEN forecast
    ELSE ForecastLoop(
             i + 1,
             Append(forecast,
                    ForecastMonth(
                        p.last_date + i, total_sales,
                        forecast_successful_sales(total_sales, p.success_rate),
                        p.success_rate,
                        RMul(Int2Rat(forecast_successful_sales(total_sales, p.success_rate)),
                             p.avg_commission),
                        forecast)),
             IF i + 1 > p.forecast_months THEN total_sales
             ELSE grown_sales(total_sales,
                              adjusted_growth(p.growth_rate, p.noise[i + 1])),
             p)

\* _generate_forecast_data(last_month, growth_rate, success_rate,
\* avg_commission, forecast_months); noise[i] is what np.random.normal
\* returns in month i
generate_forecast_data(last_month, growth_rate, success_rate, avg_commission, forecast_months, noise) ==
    IF forecast_months < 1 THEN << >>
    ELSE ForecastLoop(
             1, << >>,
             grown_sales(last_month.total_sales,
                         adjusted_growth(RMax(Rat(-1, 10), RMin(growth_rate, Rat(3, 10))),
                                         noise[1])),
             [last_date |-> last_month.month_year,
              growth_rate |-> RMax(Rat(-1, 10), RMin(growth_rate, Rat(3, 10))),
              success_rate |-> success_rate, avg_commission |-> avg_commission,
              forecast_months |-> forecast_months, noise |-> noise])


\* the days of a year (not a leap year) that precede each month
DaysBefore == <<0, 31, 59, 90, 120, 151, 181, 212, 243, 273, 304, 334, 365>>

\* the calendar month day d of this year falls in, January being 1; a day
\* past December falls in a month past 12
MonthOfDay(d) ==
    12 * ((d - 1) \div 365)
    + (CHOOSE m \in 1 .. 12 : /\ DaysBefore[m] < ((d - 1) % 365) + 1
                              /\ ((d - 1) % 365) + 1 <= DaysBefore[m + 1])

\* (current_date + timedelta(days=32 * i)).replace(day=1), today being a
\* day of January
NewAgentMonth(today, i) == MonthOfDay(today + 32 * i)

\* sales_data['success_flag'].mean()
network_success_rate(B, columns, available) ==
    IF ~available \/ "success_flag" \notin columns THEN Rat(1, 2)
    ELSE IF Rows(B) = 0 THEN NaN
    ELSE Rat(CountWhere(B, {k \in DOMAIN B : k.success_flag}), Rows(B))

\* the mean commission of the successful sales, 1000 when there is none
network_avg_commission(B, available) ==
    IF ~available \/ CountWhere(B, {k \in DOMAIN B : k.success_flag}) = 0
    THEN Int2Rat(1000)
    ELSE Rat(SumFun([k \in {k \in DOMAIN B : k.success_flag} |-> B[k] * k.commission]),
             CountWhere(B, {k \in DOMAIN B : k.success_flag}))

\* the number of sales of an agent in the first month the agent sold in
first_month_sales(group) ==
    CountWhere(group, {k \in DOMAIN group :
                           \A other \in DOMAIN group : k.month <= other.month})

\* int(np.median(first_months)) over the agents of the snapshot, 5 when the
\* snapshot cannot tell
avg_first_month_sales(B, columns, available) ==
    IF ~available \/ "date" \notin columns \/ "agent_id" \notin columns
          \/ Rows(B) = 0
    THEN 5
    ELSE LET agent_ids == SortedSeq({k.agent_id : k \in DOMAIN B})
             median == Quantile([i \in DOMAIN agent_ids |->
                                    Int2Rat(first_month_sales(
                                                AgentSales(B, agent_ids[i])))],
                                1, 2)
         IN  median.n \div median.d

RECURSIVE NewAgentLoop(_, _, _, _, _)
\* the loop of _generate_new_agent_forecast from month i on
NewAgentLoop(i, forecast_data, total_sales, monthly_growth, p) ==
    IF i > p.forecast_months THEN forecast_data
    ELSE NewAgentLoop(
             i + 1,
             Append(forecast_data,
                    ForecastMonth(
                        NewAgentMonth(p.today, i), total_sales,
                        forecast_successful_sales(total_sales, p.avg_success_rate),
                        p.avg_success_rate,
                        RMul(Int2Rat(forecast_successful_sales(total_sales,
                                                               p.avg_success_rate)),
                             p.avg_commission),
                        forecast_data)),
             grown_sales(total_sales, monthly_growth),
             RMax(Rat(5, 100), RSub(monthly_growth, Rat(3, 100))),
             p)

\* summary of a forecast; forecast_months is not 0
ForecastSummary(forecast, forecast_months, projected_growth) ==
    [is_none |-> FALSE, forecast_months |-> forecast_months,
     total_forecast_sales |->
         SumFun([i \in DOMAIN forecast |-> forecast[i].total_sales]),
     total_forecast_commission |-> SumCommission(forecast),
     avg_monthly_commission |->
         RDiv(SumCommission(forecast), Int2Rat(forecast_months)),
     projected_growth |-> projected_growth]

NoSummary == [is_none |-> TRUE]

\* what a generate_forecast call leaves behind: its arguments, the path
\* taken, the exception it left with, the month-over-month growth rates it
\* computed and the fields of the dictionary it returned (returned is FALSE
\* when it returned None or raised)
ForecastResult(agent_id, forecast_months, path, raised, historical, sales_growth, forecast, summary, optimization) ==
    [op |-> "generate_forecast", agent_id |-> agent_id,
     forecast_months |-> forecast_months, path |-> path, raised |-> raised,
     returned |-> raised = "None" /\ path # "none",
     historical |-> historical, sales_growth |-> sales_growth,
     forecast |-> forecast, summary |-> summary,
     optimization |-> optimization]

\* the dictionary built from a finished forecast loop; dividing by a
\* forecast_months of 0 in the summary raises
ForecastDict(agent_id, forecast_months, path, historical, sales_growth, forecast, projected_growth, optimization) ==
    IF forecast_months = 0
    THEN ForecastResult(agent_id, forecast_months, path, "ZeroDivisionError",
                        << >>, sales_growth, << >>, NoSummary, << >>)
    ELSE ForecastResult(agent_id, forecast_months, path, "None", historical,
                        sales_growth, forecast,
                        ForecastSummary(forecast, forecast_months, projected_growth),
                        optimization)

\* _generate_new_agent_forecast(agent_id, forecast_months, agent_info); it
\* adds the month_year column to the cached frame itself when the frame has
\* dates
new_agent_forecast(B, columns, agent_id, forecast_months, today, available) ==
    [out |-> ForecastDict(
                 agent_id, forecast_months, "new_agent", << >>, << >>,
                 NewAgentLoop(1, << >>,
                              avg_first_month_sales(B, columns, available),
                              Rat(2, 10),
                              [today |-> today, forecast_months |-> forecast_months,
                               avg_success_rate |->
                                   network_success_rate(B, columns, available),
                               avg_commission |->
                                   network_avg_commission(B, available)]),
                 Rat(2, 10), OnboardingPlaylist),
     columns |-> IF available /\ "date" \in columns /\ "agent_id" \in columns
                 THEN columns \cup {"month_year"} ELSE columns]


\* the guard of the history-based projection taken with one month already
enough_history_with_one_month(monthly) == Len(monthly) >= 1
\* len(monthly) >= 2: the trend needs two months
enough_history(monthly) == Len(monthly) >= 2

\* the history-based branch of generate_forecast once the trend is known
HistoryAnswer(agent_id, forecast_months, monthly, sales_growth, avg_growth_rate, avg_success_rate, avg_commission, noise) ==
    ForecastDict(agent_id, forecast_months, "history", monthly, sales_growth,
                 generate_forecast_data(monthly[Len(monthly)], avg_growth_rate,
                                        avg_success_rate, avg_commission,
                                        forecast_months, noise),
                 avg_growth_rate,
                 suggestions_for(avg_growth_rate, avg_success_rate, avg_commission))

\* the trend of the monthly frame and the forecast made from it
history_forecast(monthly, agent_id, forecast_months, noise) ==
    HistoryAnswer(
        agent_id, forecast_months, monthly,
        SalesGrowth([i \in DOMAIN monthly |-> monthly[i].total_sales]),
        average_growth_rate(
            SalesGrowth([i \in DOMAIN monthly |-> monthly[i].total_sales])),
        weighted_average([i \in DOMAIN monthly |-> monthly[i].success_rate],
                         linspace_weights(Len(monthly))),
        weighted_average([i \in DOMAIN monthly |-> monthly[i].avg_commission],
                         linspace_weights(Len(monthly))),
        noise)

\* the values np.random.normal(0, 0.05) returns
Noise == {Rat(-1, 10), Rat(1, 10)}
\* the days of January a call is made on
Todays == {1, 31}
ForecastMonths == -1 .. MaxMonths

\* the answer without a forecast: None, or the exception raised
NoForecast(columns, agent_id, forecast_months, raised) ==
    [out |-> ForecastResult(agent_id, forecast_months, "none", raised,
                            << >>, << >>, << >>, NoSummary, << >>),
     columns |-> columns]

\* generate_forecast(agent_id, forecast_months) when the generator behind
\* np.random.normal yields the variations noise: the answers it can give,
\* one for each date the new-agent forecast can be made on, each with the
\* columns of the cached frame afterwards.  A snapshot without a record is a
\* frame without columns, and selecting its agent_id column raises.
seeded_forecast_answers(B, columns, agent_id, forecast_months, available, noise) ==
    IF ~available
    THEN {NoForecast(columns, agent_id, forecast_months, "None")}
    ELSE IF Rows(B) = 0
    THEN {NoForecast(columns, agent_id, forecast_months, "KeyError")}
    ELSE IF Rows(AgentSales(B, agent_id)) = 0
    THEN {new_agent_forecast(B, columns, agent_id, forecast_months, today, available) :
              today \in Todays}
    ELSE IF "date" \notin columns
    THEN {NoForecast(columns, agent_id, forecast_months, "None")}
    ELSE IF enough_history(MonthlyPerformance(AgentSales(B, agent_id)))
    THEN {[out |-> history_forecast(MonthlyPerformance(AgentSales(B, agent_id)),
                                    agent_id, forecast_months, noise),
           columns |-> columns]}
    ELSE {new_agent_forecast(B, columns, agent_id, forecast_months, today, available) :
              today \in Todays}

\* does the call reach _generate_forecast_data, the one place that draws
\* variations?
draws_variations(B, columns, agent_id, available) ==
    /\ available
    /\ Rows(AgentSales(B, agent_id)) # 0
    /\ "date" \in columns
    /\ enough_history(MonthlyPerformance(AgentSales(B, agent_id)))

\* generate_forecast(agent_id, forecast_months): the answers it can give,
\* for each sequence of variations the projection can draw
forecast_answers(B, columns, agent_id, forecast_months, available) ==
    UNION {seeded_forecast_answers(B, columns, agent_id, forecast_months,
                                   available, noise) :
               noise \in IF draws_variations(B, columns, agent_id, available)
                         THEN [1 .. forecast_months -> Noise]
                         ELSE {<< >>}}

\* ForecastService.generate_forecast
generate_forecast(agent_id, forecast_months) ==
    /\ phase # "loading"
    /\ forecastOut = Idle
    /\ \E answer \in forecast_answers(sales, sales_columns, agent_id,
                                      forecast_months, phase = "serving") :
           /\ forecastOut' = answer.out
           /\ sales_columns' = answer.columns
    /\ UNCHANGED <<phase, sales, beside_forecast>>

\* ForecastService.get_optimization_suggestions(agent_id), called without
\* the metrics
get_optimization_suggestions(agent_id) ==
    /\ phase # "loading"
    /\ forecastOut = Idle
    /\ forecastOut' =
         IF phase = "unavailable"
         THEN [op |-> "get_optimization_suggestions", agent_id |-> agent_id,
               raised |-> "None", result |-> << >>]
         ELSE IF Rows(sales) = 0
         THEN [op |-> "get_optimization_suggestions", agent_id |-> agent_id,
               raised |-> "KeyError", result |-> << >>]
         ELSE [op |-> "get_optimization_suggestions", agent_id |-> agent_id,
               raised |-> "None",
               result |->
                   LET metrics == agent_metrics(AgentSales(sales, agent_id),
                                                sales_columns)
                   IN  suggestions_for(metrics.sales_growth, metrics.success_rate,
                                       metrics.avg_commission)]
    /\ UNCHANGED <<phase, sales, sales_columns, beside_forecast>>

\* the response has been handed to the caller
ReturnForecast ==
    /\ forecastOut # Idle
    /\ forecastOut' = Idle
    /\ UNCHANGED <<phase, sales, sales_columns, beside_forecast>>

\* rows of agent 1 over three months: failed applications and sales with a
\* low and a high commission; agent 2 has a failed application in one month
\* and a sale in the next
ForecastSaleRows ==
    {SaleRow(1, 1, o[1], o[2], m, 500000, "Salaried") :
        m \in 1 .. 3, o \in {<<FALSE, 0>>, <<TRUE, 1000>>, <<TRUE, 3000>>}}
    \cup {SaleRow(2, 1, FALSE, 0, 1, 500000, "Salaried"),
          SaleRow(2, 1, TRUE, 1000, 2, 500000, "Salaried")}

InitForecast ==
    /\ phase = "loading"
    /\ sales = EmptyBag
    /\ sales_columns \in {SnapshotColumns, SnapshotColumns \ {"date"}}
    /\ cardsOut = Idle
    /\ success_predictor = NewSuccessPredictor
    /\ commission_predictor = NewCommissionPredictor
    /\ model_dir = NoFiles
    /\ leadsOut = Idle
    /\ predOut = Idle
    /\ forecastOut = Idle
    /\ requests = Idle

NextForecast ==
    \/ StoreSale(ForecastSaleRows)
    \/ LoadSnapshot
    \/ SnapshotArrives
    \/ \E agent_id \in Agents, forecast_months \in ForecastMonths :
           generate_forecast(agent_id, forecast_months)
    \/ \E agent_id \in Agents : get_optimization_suggestions(agent_id)
    \/ ReturnForecast

SpecForecast == InitForecast /\ [][NextForecast]_vars


(***************************************************************************)
(* Claims about ForecastService.                                           *)
(***************************************************************************)
\* generate_forecast has returned a forecast dictionary
ForecastAnswered == forecastOut.op = "generate_forecast" /\ forecastOut.returned

\* C6: in every forecast generate_forecast returns, on the history-based
\* path and on the new-agent path, the cumulative_commission of month k is
\* the sum of the commission of months 1..k of that forecast, whatever the
\* variations drawn; the first month's is its own commission, so the
\* accumulation starts from 0 on every call
C6_CumulativeIsPrefixSum ==
    ForecastAnswered =>
        \A k \in DOMAIN forecastOut.forecast :
            forecastOut.forecast[k].cumulative_commission
                = SumCommission(SubSeq(forecastOut.forecast, 1, k))

\* a history-based forecast of at least two months that earn a commission
C6_CommissionAccumulated ==
    /\ ForecastAnswered
    /\ forecastOut.path = "history"
    /\ Len(forecastOut.forecast) >= 2
    /\ \A k \in 1 .. 2 : forecastOut.forecast[k].commission.n > 0

\* the number of calendar months the agent's sales fall in
DistinctMonths(B, agent_id) ==
    Cardinality({k.month : k \in DOMAIN AgentSales(B, agent_id)})

\* C7: for an agent whose sales fall in exactly one calendar month,
\* generate_forecast takes the new-agent path and computes no
\* month-over-month growth; the history-based projection is entered only
\* when the agent has at least 2 distinct months of data
C7_OneMonthTakesNewAgentPath ==
    (/\ forecastOut.op = "generate_forecast"
     /\ phase = "serving"
     /\ "date" \in sales_columns)
    => /\ DistinctMonths(sales, forecastOut.agent_id) = 1
            => /\ forecastOut.path = "new_agent"
               /\ forecastOut.sales_growth = << >>
       /\ forecastOut.path = "history"
            => DistinctMonths(sales, forecastOut.agent_id) >= 2

\* a forecast returned for an agent with several sales in a single month
C7_OneMonthForecast ==
    /\ ForecastAnswered
    /\ Rows(AgentSales(sales, forecastOut.agent_id)) >= 2
    /\ DistinctMonths(sales, forecastOut.agent_id) = 1
    /\ forecastOut.path = "new_agent"

\* C8: an agent with no sales history receives the fixed 3-suggestion
\* onboarding playlist and none of the threshold-triggered suggestions, in
\* the optimization field of generate_forecast and in the result of
\* get_optimization_suggestions
C8_NewAgentGetsOnboardingPlaylist ==
    /\ (/\ ForecastAnswered
        /\ Rows(AgentSales(sales, forecastOut.agent_id)) = 0)
       => forecastOut.optimization = OnboardingPlaylist
    /\ (/\ forecastOut.op = "get_optimization_suggestions"
        /\ phase = "serving"
        /\ forecastOut.raised = "None"
        /\ Rows(AgentSales(sales, forecastOut.agent_id)) = 0)
       => forecastOut.result = OnboardingPlaylist


(***************************************************************************)
(* Requests served concurrently.  Flask's app.run serves each request in   *)
(* a thread of its own, and routes.py holds one LeadService for all of     *)
(* them.  A request here is a call of LeadService.predict_success, made    *)
(* by the predict-success route or by recommend_leads for a candidate      *)
(* lead (lines 205 and 376); what recommend_leads does besides is local    *)
(* to the request.  Each action is one stretch of the call between two     *)
(* accesses to the predictors.  pc is the position of the request:         *)
(*   check_trained        before line 251                                  *)
(*   train_models         _train_models entered (line 252)                 *)
(*   success_train        before success_predictor.train (line 285)        *)
(*   success_fit_call     self.model assigned, before line 108 of train    *)
(*   success_fit          inside self.model.fit                            *)
(*   commission_train, commission_fit_call, commission_fit   likewise      *)
(*   save_models          before the saving of line 293                    *)
(*   recheck              before line 254                                  *)
(*   predict_probability  before line 259                                  *)
(*   success_predicting   inside self.model.predict_proba                  *)
(*   commission_check     before line 262                                  *)
(*   commission_predicting  inside self.model.predict                      *)
(*   done                 the answer is built                              *)
(* fitting tells whether the Pipeline the request is fitting is still the  *)
(* one the predictor holds ("current") or has been replaced by another     *)
(* request's since ("replaced").                                           *)
(***************************************************************************)
Threads == {1, 2}

IdleRequest == [pc |-> "idle"]

Request(pc, customer_data, card_id, fitting, success_prob, result) ==
    [pc |-> pc, customer_data |-> customer_data, card_id |-> card_id,
     fitting |-> fitting, success_prob |-> success_prob, result |-> result]

\* the request moves on to pc
Goto(r, pc) == [r EXCEPT !.pc = pc]

NoProbability == [value |-> NaN, path |-> "none"]

\* the predictors, the model directory and the snapshot stay as they are
OnlyRequests ==
    UNCHANGED <<phase, sales, cardsOut, success_predictor, commission_predictor,
                model_dir, leadsOut, predOut, forecastOut, sales_columns>>

\* lines 240-248 of predict_success: the card is looked up
BeginPredictSuccess(t, customer_data, card_id) ==
    /\ phase # "loading"
    /\ requests[t].pc = "idle"
    /\ requests' =
         [requests EXCEPT ![t] =
             IF phase = "unavailable" \/ card_id \notin KnownCards
             THEN Request("done", customer_data, card_id, "none",
                          NoProbability, NoPrediction)
             ELSE Request("check_trained", customer_data, card_id, "none",
                          NoProbability, NoPrediction)]
    /\ OnlyRequests

\* line 251: if not self.success_predictor.is_trained()
CheckTrained(t) ==
    /\ requests[t].pc = "check_trained"
    /\ requests' = [requests EXCEPT ![t] =
                       Goto(@, IF is_trained(success_predictor) THEN "recheck"
                               ELSE "train_models")]
    /\ OnlyRequests

\* lines 276-282 of _train_models: the data is loaded and counted
LoadTrainingData(t) ==
    /\ requests[t].pc = "train_models"
    /\ requests' = [requests EXCEPT ![t] =
                       Goto(@, IF phase # "serving" \/ Rows(sales) < 50
                               THEN "recheck" ELSE "success_train")]
    /\ OnlyRequests

\* the requests after request t has assigned a new Pipeline to a predictor:
\* t is at pc, and a request inside the fit of that predictor's Pipeline
\* now fits one the predictor no longer holds
AfterBuild(t, pc, fit_pc) ==
    [u \in Threads |->
        IF u = t THEN Goto(requests[t], pc)
        ELSE IF requests[u].pc = fit_pc
        THEN [requests[u] EXCEPT !.fitting = "replaced"]
        ELSE requests[u]]


\* SuccessPredictor.train up to line 106: the checks, self.features and
\* self.model = Pipeline(...), which makes is_trained() true
SuccessTrainBuild(t) ==
    /\ requests[t].pc = "success_train"
    /\ IF TrainRejects(SnapshotFrame(sales), 50, {"success_flag", "card_id"})
          \/ FeatureList(SnapshotFrame(sales).columns) = << >>
       THEN /\ requests' = [requests EXCEPT ![t] = Goto(@, "commission_train")]
            /\ UNCHANGED success_predictor
       ELSE /\ success_predictor' =
                  [success_train(success_predictor, SnapshotFrame(sales)).p
                      EXCEPT !.model = "unfitted"]
            /\ requests' = AfterBuild(t, "success_fit_call", "success_fit")
    /\ UNCHANGED <<phase, sales, cardsOut, commission_predictor, model_dir,
                   leadsOut, predOut, forecastOut, sales_columns>>

\* line 108 of train: self.model is read and its fit is entered
SuccessFitStart(t) ==
    /\ requests[t].pc = "success_fit_call"
    /\ requests' = [requests EXCEPT ![t] =
                       [Goto(@, "success_fit") EXCEPT !.fitting = "current"]]
    /\ OnlyRequests

\* fit returns (or raises, and train returns False); the Pipeline is the
\* predictor's unless another request has replaced it
SuccessFitEnd(t) ==
    /\ requests[t].pc = "success_fit"
    /\ success_predictor' =
         IF requests[t].fitting = "current"
         THEN [success_predictor EXCEPT
                  !.model = success_train(success_predictor,
                                          SnapshotFrame(sales)).p.model]
         ELSE success_predictor
    /\ requests' = [requests EXCEPT ![t] =
                       [Goto(@, "commission_train") EXCEPT !.fitting = "none"]]
    /\ UNCHANGED <<phase, sales, cardsOut, commission_predictor, model_dir,
                   leadsOut, predOut, forecastOut, sales_columns>>

\* lines 288-290 of _train_models and CommissionPredictor.train up to line
\* 111
CommissionTrainBuild(t) ==
    /\ requests[t].pc = "commission_train"
    /\ IF Rows(SuccessfulSales(sales)) < 30
          \/ TrainRejects(SnapshotFrame(SuccessfulSales(sales)), 30,
                          {"commission", "card_id"})
       THEN /\ requests' = [requests EXCEPT ![t] = Goto(@, "save_models")]
            /\ UNCHANGED commission_predictor
       ELSE IF FeatureList(SnapshotFrame(SuccessfulSales(sales)).columns) = << >>
       THEN /\ requests' = [requests EXCEPT ![t] = Goto(@, "save_models")]
            /\ commission_predictor' =
                  commission_train(commission_predictor,
                                   SnapshotFrame(SuccessfulSales(sales))).p
       ELSE /\ commission_predictor' =
                  [commission_train(commission_predictor,
                                    SnapshotFrame(SuccessfulSales(sales))).p
                      EXCEPT !.model = "unfitted"]
            /\ requests' = AfterBuild(t, "commission_fit_call", "commission_fit")
    /\ UNCHANGED <<phase, sales, cardsOut, success_predictor, model_dir,
                   leadsOut, predOut, forecastOut, sales_columns>>

\* line 113 of CommissionPredictor.train
CommissionFitStart(t) ==
    /\ requests[t].pc = "commission_fit_call"
    /\ requests' = [requests EXCEPT ![t] =
                       [Goto(@, "commission_fit") EXCEPT !.fitting = "current"]]
    /\ OnlyRequests

CommissionFitEnd(t) ==
    /\ requests[t].pc = "commission_fit"
    /\ commission_predictor' =
         IF requests[t].fitting = "current"
         THEN [commission_predictor EXCEPT
                  !.model = commission_train(
                                commission_predictor,
                                SnapshotFrame(SuccessfulSales(sales))).p.model]
         ELSE commission_predictor
    /\ requests' = [requests EXCEPT ![t] =
                       [Goto(@, "save_models") EXCEPT !.fitting = "none"]]
    /\ UNCHANGED <<phase, sales, cardsOut, success_predictor, model_dir,
                   leadsOut, predOut, forecastOut, sales_columns>>

\* lines 293-305 of _train_models
SaveModels(t) ==
    /\ requests[t].pc = "save_models"
    /\ model_dir' = save_models(success_predictor, commission_predictor,
                                model_dir).files
    /\ requests' = [requests EXCEPT ![t] = Goto(@, "recheck")]
    /\ UNCHANGED <<phase, sales, cardsOut, success_predictor,
                   commission_predictor, leadsOut, predOut, forecastOut,
                   sales_columns>>

\* lines 254-256 of predict_success
Recheck(t) ==
    /\ requests[t].pc = "recheck"
    /\ requests' =
         [requests EXCEPT ![t] =
             IF ~is_trained(success_predictor)
             THEN [Goto(@, "done") EXCEPT
                      !.result = lead_basic_prediction(
                                     requests[t].customer_data, CardDetails(requests[t].card_id))]
             ELSE Goto(@, "predict_probability")]
    /\ OnlyRequests

\* line 259 and predict_probability up to line 155: the predictor is
\* trained, the input row is built and predict_proba is entered
PredictProbabilityStart(t) ==
    /\ requests[t].pc = "predict_probability"
    /\ requests' =
         [requests EXCEPT ![t] =
             IF ~is_trained(success_predictor)
             THEN [Goto(@, "commission_check") EXCEPT
                      !.success_prob =
                          predict_probability(success_predictor,
                                              requests[t].customer_data, requests[t].card_id)]
             ELSE Goto(@, "success_predicting")]
    /\ OnlyRequests

\* predict_proba returns or raises, on the Pipeline as it is by now
PredictProbabilityEnd(t) ==
    /\ requests[t].pc = "success_predicting"
    /\ requests' =
         [requests EXCEPT ![t] =
             [Goto(@, "commission_check") EXCEPT
                 !.success_prob = predict_probability(success_predictor,
                                                      requests[t].customer_data, requests[t].card_id)]]
    /\ OnlyRequests

\* line 262: is the commission predictor asked?
CommissionCheck(t) ==
    /\ requests[t].pc = "commission_check"
    /\ requests' =
         [requests EXCEPT ![t] =
             IF RGt(requests[t].success_prob.value, Int2Rat(0))
                /\ is_trained(commission_predictor)
             THEN Goto(@, "commission_predicting")
             ELSE [Goto(@, "done") EXCEPT
                      !.result = model_prediction(requests[t].success_prob,
                                                  NewCommissionPredictor,
                                                  requests[t].customer_data, requests[t].card_id)]]
    /\ OnlyRequests

\* line 263 and the rest of predict_success
PredictCommissionEnd(t) ==
    /\ requests[t].pc = "commission_predicting"
    /\ requests' =
         [requests EXCEPT ![t] =
             [Goto(@, "done") EXCEPT
                 !.result = model_prediction(requests[t].success_prob, commission_predictor,
                                             requests[t].customer_data, requests[t].card_id)]]
    /\ OnlyRequests

\* the answer is handed to the caller
ReturnPrediction(t) ==
    /\ requests[t].pc = "done"
    /\ requests' = [requests EXCEPT ![t] = IdleRequest]
    /\ OnlyRequests


\* a history to train on is stored, the service is constructed, and the two
\* request threads run
InitConc ==
    /\ phase = "loading"
    /\ sales = EmptyBag
    /\ sales_columns = SnapshotColumns
    /\ cardsOut = Idle
    /\ success_predictor = NewSuccessPredictor
    /\ commission_predictor = NewCommissionPredictor
    /\ model_dir \in {NoFiles, TrainedFiles}
    /\ leadsOut = Idle
    /\ predOut = Idle
    /\ forecastOut = Idle
    /\ requests = [t \in Threads |-> IdleRequest]

\* the customers and cards the concurrent requests ask about
ConcCustomers == {c \in Customers : "income" \in DOMAIN c}
ConcCards == {0, 1}

NextConc ==
    \/ StoreBatch
    \/ LeadService_init
    \/ SnapshotArrives
    \/ \E t \in Threads, customer_data \in ConcCustomers, card_id \in ConcCards :
           BeginPredictSuccess(t, customer_data, card_id)
    \/ \E t \in Threads : CheckTrained(t)
    \/ \E t \in Threads : LoadTrainingData(t)
    \/ \E t \in Threads : SuccessTrainBuild(t)
    \/ \E t \in Threads : SuccessFitStart(t)
    \/ \E t \in Threads : SuccessFitEnd(t)
    \/ \E t \in Threads : CommissionTrainBuild(t)
    \/ \E t \in Threads : CommissionFitStart(t)
    \/ \E t \in Threads : CommissionFitEnd(t)
    \/ \E t \in Threads : SaveModels(t)
    \/ \E t \in Threads : Recheck(t)
    \/ \E t \in Threads : PredictProbabilityStart(t)
    \/ \E t \in Threads : PredictProbabilityEnd(t)
    \/ \E t \in Threads : CommissionCheck(t)
    \/ \E t \in Threads : PredictCommissionEnd(t)
    \/ \E t \in Threads : ReturnPrediction(t)

SpecConc == InitConc /\ [][NextConc]_vars

(***************************************************************************)
(* Claim about concurrent requests.                                        *)
(***************************************************************************)
\* the request is inside the training of the predictor: its train has
\* assigned the Pipeline and has not returned
TrainingPredictor(r, predictor) ==
    IF predictor = "success" THEN r.pc \in {"success_fit_call", "success_fit"}
    ELSE r.pc \in {"commission_fit_call", "commission_fit"}

\* the request has found the predictor trained and is inside its predict
QueryingPredictor(r, predictor) ==
    IF predictor = "success" THEN r.pc = "success_predicting"
    ELSE r.pc = "commission_predicting"

\* the request is inside _train_models, past the loading of the data
InsideTraining(r) ==
    r.pc \in {"success_train", "success_fit_call", "success_fit",
              "commission_train", "commission_fit_call", "commission_fit",
              "save_models"}

\* C9: retraining never overlaps inference: with two concurrent requests on
\* the shared LeadService, no request queries a predictor (is_trained true,
\* predict called) while another request is inside the training of that
\* predictor, and at most one training runs at a time
C9_RetrainingNeverOverlapsInference ==
    /\ \A t \in Threads : \A u \in Threads \ {t} :
       \A predictor \in {"success", "commission"} :
           ~(/\ QueryingPredictor(requests[t], predictor)
             /\ TrainingPredictor(requests[u], predictor))
    /\ Cardinality({t \in Threads : InsideTraining(requests[t])}) <= 1

\* C17: predict_success returns None, without training, whenever card_id
\* matches no card; compare_cards returns None exactly when none of the
\* given ids is the id of a card, and when at least one is, the comparison
\* covers exactly the cards whose ids were given.  Stated here for
\* compare_cards with the card catalogue loaded.
C17_ComparisonCoversResolvedCards ==
    (cardsOut.op = "compare_cards" /\ phase = "serving") =>
        /\ cardsOut.raised = "None"
        /\ cardsOut.is_none <=> cardsOut.card_ids \cap Cards = {}
        /\ {cardsOut.compared[i].card_id : i \in DOMAIN cardsOut.compared}
               = cardsOut.card_ids \cap Cards
        /\ Len(cardsOut.compared) = Cardinality(cardsOut.card_ids \cap Cards)

(***************************************************************************)
(* The metrics primitives on their own: the calls every rollup makes, with *)
(* counts s <= t and a non-negative commission total.                      *)
(***************************************************************************)
\* commission totals: sums of per-sale commissions
CommissionTotals == {250 * k : k \in 0 .. MaxCount}

\* calculate_success_rate(row['successful_sales'], row['total_sales'])
SuccessRateCall ==
    /\ \E total_sales \in 0 .. MaxCount :
       \E successful_sales \in 0 .. total_sales :
           cardsOut' = [op |-> "calculate_success_rate",
                        successful_sales |-> successful_sales,
                        total_sales |-> total_sales,
                        value |-> calculate_success_rate(successful_sales,
                                                         total_sales)]
    /\ UNCHANGED <<phase, sales, beside_cards>>

\* calculate_avg_commission(row['commission'], row['successful_sales'])
AvgCommissionCall ==
    /\ \E total_commission \in CommissionTotals :
       \E successful_sales \in 0 .. MaxCount :
           cardsOut' = [op |-> "calculate_avg_commission",
                        total_commission |-> total_commission,
                        successful_sales |-> successful_sales,
                        value |-> calculate_avg_commission(total_commission,
                                                           successful_sales)]
    /\ UNCHANGED <<phase, sales, beside_cards>>

InitMetrics ==
    /\ phase = "serving"
    /\ sales = EmptyBag
    /\ cardsOut = Idle
    /\ success_predictor = NewSuccessPredictor
    /\ commission_predictor = NewCommissionPredictor
    /\ model_dir = NoFiles
    /\ leadsOut = Idle
    /\ predOut = Idle
    /\ forecastOut = Idle
    /\ sales_columns = SnapshotColumns
    /\ requests = Idle

NextMetrics ==
    \/ SuccessRateCall
    \/ AvgCommissionCall

SpecMetrics == InitMetrics /\ [][NextMetrics]_vars

EligibilityTokens ==
    {<<"Income">>, <<">">>, <<"5", "0", "0", "0", "0", "0">>,
     <<"2", ",", "0", "0", ",", "0", "0", "0">>,
     <<"Rs", "3", "0", "0", "0", "0", "0">>}

\* what card_details holds under 'eligibility': nothing (the key is absent),
\* None, a text, a list of texts, a number, or the nan that to_dict yields
\* for a card whose record lacks the field other records have
EligibilityValues ==
    {[type |-> "str", text |-> text] :
         text \in UNION {[1 .. n -> EligibilityTokens] : n \in 0 .. MaxTokens}}
    \cup {[type |-> t] : t \in {"absent", "NoneType", "list", "int", "nan"}}

\* the try block that opens _generate_customer_profile, _basic_prediction
\* and _identify_key_factors; its except clause names IndexError, ValueError
\* and AttributeError, and '>' in eligibility raises TypeError on a number
min_income_of(eligibility) ==
    IF eligibility.type \in {"absent", "NoneType"}
    THEN [raised |-> "None", value |-> 300000]
    ELSE IF eligibility.type = "str"
    THEN [raised |-> "None",
          value |-> ParseMinIncome([eligibility |-> eligibility.text]).value]
    ELSE IF eligibility.type = "list"
    THEN [raised |-> "None", value |-> 300000]
    ELSE [raised |-> "TypeError", value |-> 300000]

\* _identify_key_factors(customer_data, card_details, ...) up to line 593
ParseEligibility ==
    /\ \E eligibility \in EligibilityValues :
           leadsOut' = [op |-> "parse_min_income", eligibility |-> eligibility,
                        raised |-> min_income_of(eligibility).raised,
                        min_income |-> min_income_of(eligibility).value]
    /\ UNCHANGED <<phase, sales, success_predictor, commission_predictor,
                   model_dir, beside_leads>>

NextEligibility == ParseEligibility

SpecEligibility == InitMetrics /\ [][NextEligibility]_vars

\* C19: for every eligibility value that is a text without '>', a text
\* whose word after '>' is no number, an empty text, or a missing or
\* non-text value, the parse yields the default 300000 and raises nothing;
\* for a text "... > N ..." it yields N.
C19_EligibilityParseNeverRaises ==
    leadsOut.op = "parse_min_income" =>
        /\ leadsOut.raised = "None"
        /\ leadsOut.eligibility.type # "str" => leadsOut.min_income = 300000
        /\ ( /\ leadsOut.eligibility.type = "str"
             /\ \A i \in DOMAIN leadsOut.eligibility.text :
                    leadsOut.eligibility.text[i] # <<">">> )
               => leadsOut.min_income = 300000
        /\ ( /\ leadsOut.eligibility.type = "str"
             /\ leadsOut.eligibility.text = CardEligibility(3) )
               => leadsOut.min_income = 300000
        /\ ( /\ leadsOut.eligibility.type = "str"
             /\ leadsOut.eligibility.text \in {CardEligibility(1),
                                               CardEligibility(1) \o << <<"Income">> >>} )
               => leadsOut.min_income = 500000

\* C14: no operation changes the cached snapshot: once the sales frame is
\* loaded it keeps the same records and the same columns through every
\* call.
C14_SnapshotUnchanged ==
    [][phase = "serving" =>
          /\ sales' = sales
          /\ sales_columns' = sales_columns]_vars

\* C15: with the seed of the random generator fixed, two generate_forecast
\* calls with the same snapshot, agent and horizon give the same output,
\* month labels included, on the history path and on the new-agent path.
C15_SeededForecastRepeats ==
    (forecastOut.op = "generate_forecast" /\ phase = "serving") =>
        \A noise \in [1 .. forecastOut.forecast_months -> Noise] :
            \A x, y \in seeded_forecast_answers(
                            sales, sales_columns, forecastOut.agent_id,
                            forecastOut.forecast_months, TRUE, noise) :
                x.out = y.out

\* C16: when the loaded snapshot has zero records, generate_forecast and
\* get_optimization_suggestions (as recommend_cards and recommend_leads)
\* return an empty or null result, and none of them raises.
C16_EmptySnapshotGivesEmptyResult ==
    (phase = "serving" /\ Rows(sales) = 0 /\ forecastOut # Idle) =>
        /\ forecastOut.raised = "None"
        /\ forecastOut.op = "generate_forecast" => ~forecastOut.returned
        /\ forecastOut.op = "get_optimization_suggestions" =>
               forecastOut.result = << >>


(***************************************************************************)
(* The suggestion rules on their own: get_optimization_suggestions called  *)
(* with the three metrics, as generate_forecast calls it for an agent with *)
(* history, over metrics below, at and above each threshold.               *)
(***************************************************************************)
SuccessRates == {Int2Rat(0), Rat(69, 100), Rat(7, 10), Rat(71, 100), Int2Rat(1)}
GrowthRates == {Rat(-1, 2), Rat(9, 100), Rat(1, 10), Rat(11, 100), Int2Rat(2)}
AvgCommissions == {Int2Rat(0), Int2Rat(1999), Int2Rat(2000), Int2Rat(2001), NaN}

\* get_optimization_suggestions(agent_id, sales_growth, success_rate,
\* avg_commission) with none of the metrics missing
SuggestWithMetrics ==
    /\ \E agent_id \in Agents, sales_growth \in GrowthRates :
       \E success_rate \in SuccessRates, avg_commission \in AvgCommissions :
           forecastOut' = [op |-> "suggest_with_metrics", agent_id |-> agent_id,
                           sales_growth |-> sales_growth,
                           success_rate |-> success_rate,
                           avg_commission |-> avg_commission,
                           result |-> suggestions_for(sales_growth, success_rate,
                                                      avg_commission)]
    /\ UNCHANGED <<phase, sales, sales_columns, beside_forecast>>

NextSuggestions == SuggestWithMetrics

SpecSuggestions == InitMetrics /\ [][NextSuggestions]_vars

\* the categories of the suggestions returned
Suggested == {forecastOut.result[i] : i \in DOMAIN forecastOut.result}

\* C23: for an agent with history the suggestion list contains 'Improve
\* Approval Rate' iff success rate < 0.70, 'Increase Sales Volume' iff growth
\* rate < 0.10 and 'Optimize Product Mix' iff average commission < 2000,
\* each decided independently of the others (a value exactly at a threshold
\* triggers nothing); the list always ends with the two generic suggestions
\* and has between 2 and 5 entries.
C23_ThresholdSuggestionsIndependent ==
    forecastOut.op = "suggest_with_metrics" =>
        /\ "Improve Approval Rate" \in Suggested
               <=> RLt(forecastOut.success_rate, Rat(7, 10))
        /\ "Increase Sales Volume" \in Suggested
               <=> RLt(forecastOut.sales_growth, Rat(1, 10))
        /\ "Optimize Product Mix" \in Suggested
               <=> RLt(forecastOut.avg_commission, Int2Rat(2000))
        /\ Len(forecastOut.result) \in 2 .. 5
        /\ Len(forecastOut.result) = Cardinality(Suggested)
        /\ SubSeq(forecastOut.result, Len(forecastOut.result) - 1,
                  Len(forecastOut.result))
               = <<"Enhance Sales Technique", "Use Data-Driven Insights">>

\* the three metrics sit exactly at their thresholds and only the two
\* generic suggestions are returned
C23_MetricsAtThresholds ==
    /\ forecastOut.op = "suggest_with_metrics"
    /\ forecastOut.success_rate = Rat(7, 10)
    /\ forecastOut.sales_growth = Rat(1, 10)
    /\ forecastOut.avg_commission = Int2Rat(2000)
    /\ Len(forecastOut.result) = 2


\* the total the projection starts month k from: the previous forecast
\* month's, or the last historical month's for month 1
PrevSales(k) ==
    IF k = 1 THEN forecastOut.historical[Len(forecastOut.historical)].total_sales
    ELSE forecastOut.forecast[k - 1].total_sales

\* the average observed growth kept between -10% and 30%
ClampedBaseGrowth ==
    RMax(Rat(-1, 10), RMin(average_growth_rate(forecastOut.sales_growth), Rat(3, 10)))

\* C24: in the history-based projection the base growth is first clamped to
\* [-0.10, 0.30]; in every forecast month the noise-adjusted growth lies in
\* [-0.15, 0.35] and total_sales = max(1, round(prev * (1 + adjustedGrowth)))
\* with prev the previous forecast month's total (the last historical
\* month's for month 1); hence total_sales >= 1 and
\* 0 <= successful_sales <= total_sales in every forecast month.
C24_ProjectionWithinGrowthBounds ==
    (ForecastAnswered /\ forecastOut.path = "history") =>
        /\ RGe(ClampedBaseGrowth, Rat(-1, 10))
        /\ RLe(ClampedBaseGrowth, Rat(3, 10))
        /\ \A k \in DOMAIN forecastOut.forecast :
               /\ \E variation \in Noise :
                  \E growth \in {RMax(Rat(-15, 100),
                                      RMin(RAdd(ClampedBaseGrowth, variation),
                                           Rat(35, 100)))} :
                      /\ RGe(growth, Rat(-15, 100))
                      /\ RLe(growth, Rat(35, 100))
                      /\ forecastOut.forecast[k].total_sales
                             = Max2(1, PyRound(RMul(Int2Rat(PrevSales(k)),
                                                    RAdd(Int2Rat(1), growth))))
               /\ forecastOut.forecast[k].total_sales >= 1
               /\ forecastOut.forecast[k].successful_sales >= 0
               /\ forecastOut.forecast[k].successful_sales
                      <= forecastOut.forecast[k].total_sales

\* a projection of several months from a history that grew by more than 30%
\* a month
C24_FastGrowthProjected ==
    /\ ForecastAnswered
    /\ forecastOut.path = "history"
    /\ RGt(average_growth_rate(forecastOut.sales_growth), Rat(3, 10))
    /\ Len(forecastOut.forecast) >= 2
    /\ forecastOut.forecast[2].successful_sales >= 1


\* C25: the projected growth of the forecast summary is the base (pre-noise)
\* growth rate the month-by-month projection actually uses, the value each
\* month's variation is added to, for every history, those whose average
\* observed growth is below -0.10 or above 0.30 included.
C25_ProjectedGrowthIsBaseUsed ==
    (ForecastAnswered /\ forecastOut.path = "history") =>
        forecastOut.summary.projected_growth = ClampedBaseGrowth


(***************************************************************************)
(* The agent bonus on its own: the snapshot holds the sales of one agent,  *)
(* lost, won without a commission or won with one, and the agent asks for  *)
(* recommendations.                                                        *)
(***************************************************************************)
BonusSaleRows ==
    {SaleRow(1, c, o[1], o[2], 1, 500000, "Salaried") :
        c \in Cards, o \in {<<FALSE, 0>>, <<TRUE, 0>>, <<TRUE, 1000>>}}

NextBonus ==
    \/ StoreSale(BonusSaleRows)
    \/ LoadSnapshot
    \/ \E limit \in Limits : recommend_cards(1, limit)

SpecBonus == InitCards /\ [][NextBonus]_vars

\* the agent's own record with a card, read off the snapshot
OwnSales(c) ==
    {k \in DOMAIN sales : k.agent_id = cardsOut.agent_id /\ k.card_id = c}
OwnWins(c) == {k \in OwnSales(c) : k.success_flag}
OwnSuccessRate(c) ==
    Rat(CountWhere(sales, OwnWins(c)), CountWhere(sales, OwnSales(c)))
OwnCommission(c) == SumFun([k \in OwnWins(c) |-> sales[k] * k.commission])
OwnDistinctCards ==
    Cardinality({k.card_id : k \in DOMAIN AgentSales(sales, cardsOut.agent_id)})

\* C26: agentBonus(card) is +0.2 when the agent has sold the card with own
\* success rate > 0.5 and own average commission > 0; -0.1 when the agent
\* has sold the card with own success rate < 0.3 and has sold more than 2
\* distinct cards; and 0 in every other case (card never sold by the agent,
\* rate in [0.3, 0.5], rate > 0.5 with zero commission, or rate < 0.3 with at
\* most 2 distinct cards); fitScore before normalization equals
\* baseScore + agentBonus.
C26_AgentBonusCases ==
    (cardsOut.op = "recommend_cards" /\ cardsOut.path = "history") =>
        \A i \in DOMAIN cardsOut.scored :
            \E row \in {cardsOut.scored[i]} :
                /\ row.agent_bonus =
                       IF OwnSales(row.card_id) = {} THEN Int2Rat(0)
                       ELSE IF /\ RGt(OwnSuccessRate(row.card_id), Rat(1, 2))
                               /\ OwnCommission(row.card_id) > 0
                       THEN Rat(2, 10)
                       ELSE IF /\ RLt(OwnSuccessRate(row.card_id), Rat(3, 10))
                               /\ OwnDistinctCards > 2
                       THEN Rat(-1, 10)
                       ELSE Int2Rat(0)
                /\ row.raw_score = RAdd(row.base_score, row.agent_bonus)
                /\ row.base_score =
                       RAdd(RMul(row.success_rate, Rat(4, 10)),
                            RMul(RDiv(row.avg_commission,
                                      SeriesMax({cardsOut.scored[j].avg_commission :
                                                    j \in DOMAIN cardsOut.scored})),
                                 Rat(6, 10)))

\* an agent who has sold three cards is scored: one card with a bonus, one
\* with a penalty
C26_BonusAndPenalty ==
    /\ cardsOut.op = "recommend_cards"
    /\ cardsOut.path = "history"
    /\ \E i, j \in DOMAIN cardsOut.scored :
           /\ cardsOut.scored[i].agent_bonus = Rat(2, 10)
           /\ cardsOut.scored[j].agent_bonus = Rat(-1, 10)


(***************************************************************************)
(* The success heuristic on its own: a SuccessPredictor that was never     *)
(* trained is asked about customers whose credit score, income and age lie *)
(* below, at, between and above the ends of the ranges the heuristic uses, *)
(* and about a customer who names none of the three.                       *)
(***************************************************************************)
HeuristicScores == {550, 600, 750, 900, 950}
HeuristicIncomes == {100000, 200000, 600000, 1000000, 1200000}
HeuristicAges == {20, 21, 24, 25, 55, 56, 65, 66}
HeuristicCustomers ==
    {[credit_score |-> s, income |-> i, age |-> a] :
        s \in HeuristicScores, i \in HeuristicIncomes, a \in HeuristicAges}
    \cup {[employment_type |-> "Business"]}

\* predict_probability(customer_data, card_id) of the Untrained predictor
HeuristicPrediction ==
    /\ ~is_trained(success_predictor)
    /\ \E customer_data \in HeuristicCustomers, card_id \in {1} :
       \E r \in {predict_probability(success_predictor, customer_data, card_id)} :
           predOut' = [op |-> "basic_prediction", path |-> r.path,
                       credit_score |-> Get(customer_data, "credit_score", 650),
                       income |-> Get(customer_data, "income", 300000),
                       age |-> Get(customer_data, "age", 35),
                       value |-> r.value]
    /\ UNCHANGED <<phase, sales, success_predictor, commission_predictor,
                   model_dir, beside_predictors>>

NextHeuristic == HeuristicPrediction

SpecHeuristic == InitMetrics /\ [][NextHeuristic]_vars

\* clamp(x, lo, hi)
Clamped(x, lo, hi) == IF RLt(x, lo) THEN lo ELSE IF RGt(x, hi) THEN hi ELSE x

\* 0.3 + 0.3 * creditFactor + 0.3 * incomeFactor + 0.1 * ageFactor, the factors
\* as the claim gives them
WeightedFactors(credit_score, income, age) ==
    RAdd(Rat(3, 10),
         RAdd(RMul(Rat(3, 10),
                   Clamped(Rat(credit_score - 600, 300), Int2Rat(0), Int2Rat(1))),
              RAdd(RMul(Rat(3, 10),
                        Clamped(Rat(income - 200000, 800000), Int2Rat(0), Int2Rat(1))),
                   RMul(Rat(1, 10),
                        IF age < 21 THEN Rat(5, 10)
                        ELSE IF age <= 24 THEN Rat(8, 10)
                        ELSE IF age <= 55 THEN Int2Rat(1)
                        ELSE IF age <= 65 THEN Rat(9, 10)
                        ELSE Rat(7, 10)))))

\* C27: the success heuristic of an Untrained SuccessPredictor returns
\* clamp(0.3 + 0.3*creditFactor + 0.3*incomeFactor + 0.1*ageFactor, 0.1, 0.9)
\* with creditFactor = clamp((score-600)/300, 0, 1), incomeFactor =
\* clamp((income-200000)/800000, 0, 1) and ageFactor 0.5 / 0.8 / 1.0 / 0.9 /
\* 0.7 for ages <21 / 21-24 / 25-55 / 56-65 / >65; the result lies in
\* [0.1, 0.9] for every customer and, from one call to the next, does not
\* decrease when the credit score or the income does not decrease and the
\* rest stays the same.
C27_HeuristicClampedAndMonotone ==
    [][predOut'.op = "basic_prediction" =>
          /\ predOut'.path = "heuristic"
          /\ predOut'.value =
                 Clamped(WeightedFactors(predOut'.credit_score, predOut'.income,
                                         predOut'.age),
                         Rat(1, 10), Rat(9, 10))
          /\ RGe(predOut'.value, Rat(1, 10))
          /\ RLe(predOut'.value, Rat(9, 10))
          /\ (/\ predOut.op = "basic_prediction"
              /\ predOut'.age = predOut.age
              /\ predOut'.credit_score >= predOut.credit_score
              /\ predOut'.income >= predOut.income)
             => RGe(predOut'.value, predOut.value)]_vars

\* the strongest customer there is has been asked about: the weighted sum
\* is 1.0 and the answer 0.9
C27_StrongestCustomerCapped ==
    /\ predOut.op = "basic_prediction"
    /\ predOut.credit_score = 950
    /\ predOut.income = 1200000
    /\ predOut.age = 25
    /\ predOut.value = Rat(9, 10)


\* C28: whenever train returns False for any reason, an exception raised
\* while fitting included, the predictor's observable state is the same as
\* before the call: is_trained() is unchanged (an Untrained predictor stays
\* Untrained and save still refuses), a previously fitted model is still the
\* one predict uses, and the commission fallback average is unchanged.
C28_FailedTrainChangesNothing ==
    [][(predOut'.op = "train" /\ ~predOut'.ret) =>
          /\ is_trained(success_predictor') = is_trained(success_predictor)
          /\ is_trained(commission_predictor') = is_trained(commission_predictor)
          /\ success_predictor'.model = success_predictor.model
          /\ commission_predictor'.model = commission_predictor.model
          /\ commission_predictor'.avg_commission
                 = commission_predictor.avg_commission]_vars


\* the categories get_optimization_suggestions(agent_id) returns for the
\* snapshot as it is
StandaloneCategories(agent_id) ==
    \E metrics \in {agent_metrics(AgentSales(sales, agent_id), sales_columns)} :
    \E listed \in {suggestions_for(metrics.sales_growth, metrics.success_rate,
                                      metrics.avg_commission)} :
        {listed[i] : i \in DOMAIN listed}
            = {forecastOut.optimization[i] : i \in DOMAIN forecastOut.optimization}

\* C29: for the same snapshot and an agent with at least 2 months of
\* history, get_optimization_suggestions(agent_id) returns the same set of
\* suggestion categories as the optimization field of
\* generate_forecast(agent_id, n): both derive the same success rate, growth
\* rate and average commission verdicts against the thresholds.
C29_EntryPointsAgree ==
    (/\ ForecastAnswered
     /\ forecastOut.path = "history"
     /\ DistinctMonths(sales, forecastOut.agent_id) >= 2)
    => StandaloneCategories(forecastOut.agent_id)


\* C30: when no candidate card has a successful sale (every card's average
\* commission is 0, so the maximum average commission is 0), recommend_cards
\* still gives every card a defined numeric score in [0,1]: the commission
\* term avg_commission / max(avg_commission) never divides by zero and never
\* yields an undefined value.
C30_ScoresDefinedWithoutCommission ==
    (CardsAnswered /\ ~CommissionEarned(cardsOut.scored)) =>
        \A i \in DOMAIN cardsOut.scored :
            /\ ~IsNaN(cardsOut.scored[i].fit_score)
            /\ ~IsInf(cardsOut.scored[i].fit_score)
            /\ RGe(cardsOut.scored[i].fit_score, Int2Rat(0))
            /\ RLe(cardsOut.scored[i].fit_score, Int2Rat(1))

====
